---- MODULE Spec2Model ----
(***************************************************************************)
(* Model of the AR indoor navigation system:                               *)
(*   - the document store of server.js (positions, graph, rooms),          *)
(*   - the mapping client of src/main.js (waypoint ids, removal cascade),  *)
(*   - the navigation client of src/navigation.js (shortest path, route    *)
(*     windower, navigation toggling).                                     *)
(*                                                                         *)
(* Representation.                                                         *)
(*   A node id "cube_<n>" is the tuple <<"cube", n>>; the integer cubeId   *)
(*   a client keeps in cube.userData is n.  NodeId / ParseCubeId are the   *)
(*   two conversions (template string, regexp + parseInt).                 *)
(*   A position is a pair <<x, z>> of integers (metres, floor plane).      *)
(*   Distances are compared through their squares, which preserves every   *)
(*   "<" the code evaluates; the 2.0 m threshold becomes 4.                *)
(*   A JavaScript object used as a map (cubePositions, a document's        *)
(*   mapping) is a sequence of key/value records in insertion order, or a  *)
(*   function where the code never depends on the order.                   *)
(***************************************************************************)
EXTENDS Integers, Sequences, FiniteSets, TLC

VARIABLES
    \* ---- navigation client, src/src/navigation.js:7-24
    xrSession,            \* an AR session is live
    navigationActive,
    cubes,                \* the cube meshes, in array order
    cubePositions,        \* insertion-ordered map node id -> position
    adjacencyList,        \* map node id -> set of edges
    fullNavigationPath,   \* the stored route
    pathTubes,            \* the emitted segments, in array order
    pathArrows,           \* the emitted direction markers, in array order
    referenceAnchor,      \* the calibration: position and orientation
    selectedDestination,  \* the room chosen in the selector
    destinationNodeId,    \* the node id resolved for that room
    nearestNodeId,        \* the node id found nearest at the last start
    loading,              \* where the room-change handler is waiting
    calibrateVisible,     \* the Calibrate button is shown
    roomSelectorVisible,  \* the room selector overlay is shown
    startNavVisible,      \* the Start Navigation button is shown
    hung,                 \* a handler is in a loop that never ends
    \* ---- the device
    cameraPosition,       \* renderer.xr.getCamera() world position
    \* ---- document store, src/server.js:15-17
    positionsDoc,         \* cube-positions.json: referenceAnchor and cubes
    graphDoc,             \* graph-adjacency.json: the adjacencyList
    roomsDoc,             \* node-room-mapping.json: the roomMapping, in key order
    \* ---- mapping client, src/src/main.js:7-13
    mainXrSession,        \* xrSession: an AR session is live
    mainCubes,            \* cubes: cubeId, position and rotation, in array order
    mainReferenceAnchor,  \* referenceAnchor of the mapping client
    mainSaving,           \* the POST of saveCubePositions in flight, if any
    mainLoads,            \* loadCubePositions calls scheduled and not yet answered
    removals,             \* the removeCubeFromServer calls, in start order
    \* ---- observed values
    waypointsToShow,      \* the window of the last windower run
    showDestination,      \* the reveal decision of the last windower run
    justStopped,          \* navigation was toggled off and no other button used since
    mainStored,           \* the cubes as they were when the last successful save began
    mainSaves,            \* the Store Points clicks so far
    query,                \* the arguments of the last dijkstra call
    result,               \* what the last dijkstra call returned
    initialGraph,         \* the adjacencyList persisted at the start
    graphReplaced,        \* node ids whose removal replaced the graph document
    roomsReplaced,        \* node ids whose removal replaced the rooms document
    overlapped,           \* a removal was started while another one was running
    faults,               \* store operations that have failed so far
    lastOp                \* the operation that ran last

graphVars == <<cubePositions, adjacencyList>>
sceneVars == <<cubes, pathTubes, pathArrows>>
windowObs == <<waypointsToShow, showDestination>>
planVars == <<selectedDestination, destinationNodeId, nearestNodeId, loading>>
uiVars == <<calibrateVisible, roomSelectorVisible, startNavVisible>>
clientVars == <<referenceAnchor, planVars, uiVars, hung, justStopped>>
navVars == <<xrSession, navigationActive, graphVars, fullNavigationPath, sceneVars,
             cameraPosition, windowObs, clientVars>>
storeVars == <<positionsDoc, graphDoc, roomsDoc>>
mapVars == <<mainReferenceAnchor, mainSaving, mainLoads, mainStored, mainSaves>>
mainVars == <<mainXrSession, mainCubes, removals, mapVars>>
pathObs == <<query, result>>
removeObs == <<initialGraph, graphReplaced, roomsReplaced, overlapped, faults>>

vars == <<navVars, storeVars, mainVars, pathObs, removeObs, lastOp>>

----------------------------------------------------------------------------
\* Bounds of the model.

\* Ids of the waypoints of the universe are cube_0 .. cube_(NumCubes-1).
NumCubes == 3
\* An adjacency list holds at most MaxEdges edges.
MaxEdges == 3
\* The longest edge; edge distances are 1 (short) or MaxDist (long).
MaxDist == 3
\* At most MaxRemovals waypoints are removed in a run.
MaxRemovals == 2
\* At most MaxFaults store operations fail in a run.
MaxFaults == 1
\* The longest route handed to the windower.
MaxRoute == 5

----------------------------------------------------------------------------
\* Values.

NULL == "null"
UNDEFINED == "undefined"
\* JavaScript's Infinity: larger than every sum of edge distances.
Infinity == 1000000

NodeId(cubeId) == <<"cube", cubeId>>
ParseCubeId(nodeId) == nodeId[2]

CubeIds == 0 .. (NumCubes - 1)
NodeIds == {NodeId(n) : n \in CubeIds}

Origin == <<0, 0>>

Min(S) == CHOOSE x \in S : \A y \in S : x <= y
Range(s) == {s[i] : i \in DOMAIN s}

\* An insertion-ordered map: its keys in order, membership, lookup.
Keys(m) == [i \in DOMAIN m |-> m[i].id]
HasKey(m, k) == \E i \in DOMAIN m : m[i].id = k

----------------------------------------------------------------------------
\* Edges.  {node, distance} objects; a bare id is the record with form "bare".

ObjectEdge(n, d) == [form |-> "object", node |-> n, distance |-> d]
BareEdge(n) == [form |-> "bare", node |-> n, distance |-> 0]

\* edge.node || edge
EdgeNeighbor(edge) == edge.node
\* A weight read as it is written, with no default.
EdgeWeightAsWritten(edge) == edge.distance
\* edge.distance || 1  (an omitted distance and a distance of 0 are both falsy)
EdgeWeight(edge) == IF edge.distance = 0 THEN 1 ELSE edge.distance

EdgesOf(adj, node) == IF node \in DOMAIN adj THEN adj[node] ELSE {}

----------------------------------------------------------------------------
\* dijkstra(startNode, endNode), navigation.js:655-719.
\* The search state is [distances, previous, unvisited]; unvisited is the
\* Set in insertion order (a sequence without repetition).

\* An initialisation that leaves the start node at Infinity.
DijkstraInitNoStart(cp, startNode) ==
    LET keys == Keys(cp)
        ks == Range(keys)
    IN [distances |-> [n \in ks \cup {startNode} |-> Infinity],
        previous |-> [n \in ks |-> NULL],
        unvisited |-> keys]

DijkstraInit(cp, startNode) ==
    LET keys == Keys(cp)
        ks == Range(keys)
    IN [distances |-> [n \in ks \cup {startNode} |->
                          IF n = startNode THEN 0 ELSE Infinity],
        previous |-> [n \in ks |-> NULL],
        unvisited |-> keys]

\* The first node of unvisited whose distance is below every earlier one and
\* below Infinity; NULL when there is none (lines 670-677).
MinUnvisited(distances, unvisited) ==
    LET cands == {i \in DOMAIN unvisited : distances[unvisited[i]] < Infinity}
    IN IF cands = {} THEN NULL
       ELSE LET best == Min({distances[unvisited[i]] : i \in cands})
                first == Min({i \in cands : distances[unvisited[i]] = best})
            IN unvisited[first]

SeqWithout(s, x) == SelectSeq(s, LAMBDA y : y # x)

\* Lines 689-703: relax the edges of currentNode towards unvisited neighbours.
RelaxNoUpdate(st, adj, currentNode) ==
    LET unv == SeqWithout(st.unvisited, currentNode)
        unvSet == Range(unv)
        alts(n) == {st.distances[currentNode] + EdgeWeight(e) :
                       e \in {f \in EdgesOf(adj, currentNode) : EdgeNeighbor(f) = n}}
        improved(n) == n \in unvSet /\ alts(n) # {} /\ st.distances[n] = Infinity
                       /\ Min(alts(n)) < st.distances[n]
    IN [distances |-> [n \in DOMAIN st.distances |->
                          IF improved(n) THEN Min(alts(n)) ELSE st.distances[n]],
        previous |-> [n \in DOMAIN st.previous |->
                          IF improved(n) THEN currentNode ELSE st.previous[n]],
        unvisited |-> unv]

\* A relaxation that gives up the whole search at an edge to an id that is
\* no key of the position index.
RelaxAbsentFatal(st, adj, currentNode) ==
    LET unv == SeqWithout(st.unvisited, currentNode)
        unvSet == Range(unv)
        alts(n) == {st.distances[currentNode] + EdgeWeight(e) :
                       e \in {f \in EdgesOf(adj, currentNode) : EdgeNeighbor(f) = n}}
        improved(n) == n \in unvSet /\ alts(n) # {}
                       /\ Min(alts(n)) < st.distances[n]
        fatal == \E e \in EdgesOf(adj, currentNode) :
                    EdgeNeighbor(e) \notin DOMAIN st.previous
    IN [distances |-> [n \in DOMAIN st.distances |->
                          IF improved(n) /\ ~fatal THEN Min(alts(n))
                          ELSE st.distances[n]],
        previous |-> [n \in DOMAIN st.previous |->
                          IF improved(n) /\ ~fatal THEN currentNode
                          ELSE st.previous[n]],
        unvisited |-> IF fatal THEN <<>> ELSE unv]

Relax(st, adj, currentNode) ==
    LET unv == SeqWithout(st.unvisited, currentNode)
        unvSet == Range(unv)
        alts(n) == {st.distances[currentNode] + EdgeWeight(e) :
                       e \in {f \in EdgesOf(adj, currentNode) : EdgeNeighbor(f) = n}}
        improved(n) == n \in unvSet /\ alts(n) # {}
                       /\ Min(alts(n)) < st.distances[n]
    IN [distances |-> [n \in DOMAIN st.distances |->
                          IF improved(n) THEN Min(alts(n)) ELSE st.distances[n]],
        previous |-> [n \in DOMAIN st.previous |->
                          IF improved(n) THEN currentNode ELSE st.previous[n]],
        unvisited |-> unv]

\* The while loop of lines 668-704.
RECURSIVE DijkstraLoop(_, _, _)
DijkstraLoop(st, adj, endNode) ==
    IF Len(st.unvisited) = 0 THEN st
    ELSE LET currentNode == MinUnvisited(st.distances, st.unvisited)
         IN IF currentNode = NULL THEN st
            ELSE IF currentNode = endNode THEN st
            ELSE DijkstraLoop(Relax(st, adj, currentNode), adj, endNode)

\* Lines 706-712: follow previous[] back from endNode.  previous[x] of an x
\* that is no key is undefined, undefined !== null holds, and
\* previous[undefined] is undefined again: from there the loop never ends.
RECURSIVE Reconstruct(_, _, _)
Reconstruct(previous, current, path) ==
    IF current = NULL THEN [ends |-> TRUE, path |-> path]
    ELSE IF current \notin DOMAIN previous
         THEN [ends |-> FALSE, path |-> <<current>> \o path]
    ELSE Reconstruct(previous, previous[current], <<current>> \o path)

Found(path, distance) == [kind |-> "found", path |-> path, distance |-> distance]
NotFound == [kind |-> "null", path |-> <<>>, distance |-> 0]
Diverges == [kind |-> "diverges", path |-> <<>>, distance |-> 0]
NoResult == [kind |-> "none", path |-> <<>>, distance |-> 0]

dijkstra(cp, adj, startNode, endNode) ==
    LET st == DijkstraLoop(DijkstraInit(cp, startNode), adj, endNode)
        rec == Reconstruct(st.previous, endNode, <<>>)
    IN IF ~rec.ends THEN Diverges
       ELSE IF rec.path[1] # startNode THEN NotFound
       ELSE Found(rec.path, st.distances[endNode])

----------------------------------------------------------------------------
\* Specification SpecPath: dijkstra as a function of the position index and
\* the adjacency list.

\* The position index holds cube_0 .. cube_(k-1) in that order: the mapping
\* client stores its cubes in creation order with first-gap ids and removes
\* only the last one (main.js:282-285, 320).
IndexOf(k) == [i \in 1 .. k |-> [id |-> NodeId(i - 1), pos |-> Origin]]

EdgePairs == {p \in NodeIds \X NodeIds : p[1] # p[2]}
EdgeDistances == {1, MaxDist}

\* The adjacency list with the edges es (a set of <<from, to, distance>>).
GraphOf(es) ==
    [n \in {e[1] : e \in es} |->
        {ObjectEdge(e[2], e[3]) : e \in {f \in es : f[1] = n}}]

PathGraphs ==
    UNION {{GraphOf({<<p[1], p[2], w[p]>> : p \in ps}) : w \in [ps -> EdgeDistances]} :
           ps \in {qs \in SUBSET EdgePairs : Cardinality(qs) <= MaxEdges}}

EmptyMap == <<>>

\* The parts of the system a specification leaves alone.
\* An anchor {position, orientation}; orientation is a yaw in quarter turns,
\* NoOrientation when the anchor has none.  NoAnchor is null / undefined.
NoOrientation == -1
Anchor(position, orientation) ==
    [present |-> TRUE, position |-> position, orientation |-> orientation]
NoAnchor == [present |-> FALSE, position |-> Origin, orientation |-> NoOrientation]

\* The positions document the server answers with when the file is missing,
\* server.js:43-46.
NoPositions == [referenceAnchor |-> NoAnchor, cubes |-> <<>>]

\* A cube of the mapping client: userData.cubeId, position, rotation (in
\* render increments).
MainCube(cubeId, position, rotation) ==
    [cubeId |-> cubeId, position |-> position, rotation |-> rotation]

StoreEmpty == positionsDoc = NoPositions /\ graphDoc = EmptyMap /\ roomsDoc = <<>>
\* The globals of the navigation client after init().  Whether the room
\* selector overlay is shown before the first session is decided by the
\* page's markup and style sheet, not by the script.
ClientLoaded(selectorShown) ==
    /\ referenceAnchor = NoAnchor
    /\ selectedDestination = NULL
    /\ destinationNodeId = NULL
    /\ nearestNodeId = NULL
    /\ loading = "idle"
    /\ calibrateVisible = FALSE
    /\ roomSelectorVisible = selectorShown
    /\ startNavVisible = FALSE
    /\ hung = FALSE
    /\ justStopped = FALSE
ClientIdle == ClientLoaded(FALSE)
MapIdle ==
    /\ mainReferenceAnchor = NoAnchor
    /\ mainSaving = <<>>
    /\ mainLoads = 0
    /\ mainStored = <<>>
    /\ mainSaves = 0
MainIdle == mainXrSession = FALSE /\ mainCubes = <<>> /\ removals = <<>> /\ MapIdle
SceneIdle ==
    /\ xrSession = FALSE /\ navigationActive = FALSE
    /\ cubes = <<>> /\ fullNavigationPath = <<>>
    /\ pathTubes = <<>> /\ pathArrows = <<>>
    /\ cameraPosition = Origin
    /\ waypointsToShow = <<>> /\ showDestination = FALSE
WindowIdle == SceneIdle /\ ClientIdle
NavIdle == cubePositions = <<>> /\ adjacencyList = EmptyMap /\ WindowIdle
PathObsIdle == query = <<NULL, NULL>> /\ result = NoResult
RemoveObsIdle ==
    /\ initialGraph = EmptyMap
    /\ graphReplaced = {}
    /\ roomsReplaced = {}
    /\ overlapped = FALSE
    /\ faults = 0

InitPath ==
    /\ \E k \in {NumCubes - 1, NumCubes} : cubePositions = IndexOf(k)
    /\ adjacencyList \in PathGraphs
    /\ PathObsIdle /\ WindowIdle
    /\ StoreEmpty /\ MainIdle /\ RemoveObsIdle
    /\ lastOp = "init"

CallDijkstra ==
    /\ lastOp = "init"
    /\ \E startNode \in NodeIds, endNode \in NodeIds :
          /\ query' = <<startNode, endNode>>
          /\ result' = dijkstra(cubePositions, adjacencyList, startNode, endNode)
    /\ lastOp' = "dijkstra"
    /\ UNCHANGED <<navVars, storeVars, mainVars, removeObs>>

NextPath == CallDijkstra

SpecPath == InitPath /\ [][NextPath]_vars

----------------------------------------------------------------------------
\* Claims about dijkstra (SpecPath).

KnownIds == Range(Keys(cubePositions))

\* The weights of the edges from a to b, and the total weight of a path
\* (taking the lightest of parallel edges).
WeightsBetween(adj, a, b) ==
    {EdgeWeight(e) : e \in {f \in EdgesOf(adj, a) : EdgeNeighbor(f) = b}}

RECURSIVE PathWeight(_, _)
PathWeight(adj, path) ==
    IF Len(path) < 2 THEN 0
    ELSE Min(WeightsBetween(adj, path[1], path[2])) + PathWeight(adj, Tail(path))

\* Brute force: the total weights of all simple routes from a to b over the
\* known waypoints.
RECURSIVE RouteWeights(_, _, _, _)
RouteWeights(adj, a, b, visited) ==
    IF a = b THEN {0}
    ELSE UNION {{w + r : w \in WeightsBetween(adj, a, n),
                         r \in RouteWeights(adj, n, b, visited \cup {n})} :
                n \in KnownIds \ visited}

AllPositive(adj) ==
    \A n \in DOMAIN adj : \A e \in adj[n] : e.form = "object" /\ e.distance > 0

\* C1: on a graph whose edges all carry a positive distance, for known start
\* and end joined by a route, dijkstra returns a path from start to end along
\* edges of the adjacency list whose summed weights equal the returned
\* distance, and no route from start to end weighs less.
C1_ShortestPath ==
    (/\ lastOp = "dijkstra"
     /\ AllPositive(adjacencyList)
     /\ query[1] \in KnownIds /\ query[2] \in KnownIds
     /\ RouteWeights(adjacencyList, query[1], query[2], {query[1]}) # {})
    => /\ result.kind = "found"
       /\ result.path[1] = query[1]
       /\ result.path[Len(result.path)] = query[2]
       /\ \A i \in 1 .. (Len(result.path) - 1) :
             WeightsBetween(adjacencyList, result.path[i], result.path[i + 1]) # {}
       /\ PathWeight(adjacencyList, result.path) = result.distance
       /\ result.distance =
             Min(RouteWeights(adjacencyList, query[1], query[2], {query[1]}))

\* A two-edge route was returned although a direct (heavier) edge exists.
C1_Witness ==
    /\ lastOp = "dijkstra"
    /\ result.kind = "found"
    /\ Len(result.path) = 3
    /\ WeightsBetween(adjacencyList, query[1], query[2]) # {}
    /\ result.distance < Min(WeightsBetween(adjacencyList, query[1], query[2]))

\* C2: dijkstra returns NOT_FOUND (null) whenever start or end is absent
\* from the position index.
C2_AbsentEndpointNotFound ==
    (/\ lastOp = "dijkstra"
     /\ (query[1] \notin KnownIds \/ query[2] \notin KnownIds))
    => result = NotFound

\* C17: for a known id a, dijkstra(a, a) returns the path [a] with distance
\* 0, whatever edges the adjacency list holds.
C17_SameEndpoints ==
    (lastOp = "dijkstra" /\ query[1] = query[2] /\ query[1] \in KnownIds)
        => result = Found(<<query[1]>>, 0)

\* dijkstra(a, a) was called for a known a that has edges leaving it and
\* edges leading back to it.
C17_Witness ==
    /\ lastOp = "dijkstra"
    /\ query[1] = query[2]
    /\ query[1] \in KnownIds
    /\ EdgesOf(adjacencyList, query[1]) # {}
    /\ \E n \in DOMAIN adjacencyList :
          \E e \in adjacencyList[n] : EdgeNeighbor(e) = query[1]
    /\ result.path = <<query[1]>>

\* C24: dijkstra(start, end) terminates for every position index, every
\* adjacency list and every start and end, absent ids included.
C24_DijkstraTerminates ==
    lastOp = "dijkstra" => result.kind # "diverges"

\* What holds of the code: the call returns whenever end is a key of the
\* position index, and never returns when it is not.
TerminatesIffEndKnown ==
    lastOp = "dijkstra" => (result.kind # "diverges" <=> query[2] \in KnownIds)

\* The adjacency list without the entries of ids that are no key of the
\* position index and without the edges that lead to such ids.
WithoutAbsent(cp, adj) ==
    LET known == Range(Keys(cp))
    IN [n \in DOMAIN adj \cap known |-> {e \in adj[n] : EdgeNeighbor(e) \in known}]

\* C22: for known start and end, dijkstra returns on any adjacency list what
\* it returns on that list with every edge from or to an id absent from the
\* position index deleted.
C22_AbsentIdsSkipped ==
    (/\ lastOp = "dijkstra"
     /\ query[1] \in KnownIds /\ query[2] \in KnownIds)
    => result = dijkstra(cubePositions, WithoutAbsent(cubePositions, adjacencyList),
                         query[1], query[2])

\* A route was found from a start that also has an edge to an absent id,
\* lighter than the edge the route takes, and the absent id has an edge on
\* to the end.
C22_Witness ==
    /\ lastOp = "dijkstra"
    /\ query[1] \in KnownIds /\ query[2] \in KnownIds
    /\ result.kind = "found"
    /\ Len(result.path) = 2
    /\ \E n \in DOMAIN adjacencyList \ KnownIds :
          \E e \in adjacencyList[n] : EdgeNeighbor(e) = query[2]
    /\ \E e \in EdgesOf(adjacencyList, query[1]) :
          /\ EdgeNeighbor(e) \notin KnownIds
          /\ \A f \in EdgesOf(adjacencyList, query[1]) :
                EdgeNeighbor(f) \in KnownIds => EdgeWeight(e) < EdgeWeight(f)

----------------------------------------------------------------------------
\* The document store, server.js:64-114.  A GET answers with the document, or
\* with status 500, or the request fails in the network; a POST replaces the
\* whole document, or answers 500 and writes nothing, or fails in the network.

Outcomes == {"ok", "status500", "networkError"}

\* A roomMapping is the sequence of its [id, room] entries in key order.
RoomOf(roomMapping, nodeId) ==
    IF HasKey(roomMapping, nodeId)
    THEN roomMapping[CHOOSE i \in DOMAIN roomMapping : roomMapping[i].id = nodeId].room
    ELSE UNDEFINED
RoomsWithout(roomMapping, nodeId) == SelectSeq(roomMapping, LAMBDA e : e.id # nodeId)

----------------------------------------------------------------------------
\* removeCubeFromServer, main.js:338-397.

\* Lines 348-364: delete the node's own entry, filter it out of every other
\* entry, delete the entries left empty.
FilterOnlyObjectEdges(edges, nodeId) ==
    {e \in edges : ~(e.form = "object" /\ e.node = nodeId)}
FilterEdges(edges, nodeId) == {e \in edges : EdgeNeighbor(e) # nodeId}

KeepEmptyEntries(adj, nodeId) ==
    [n \in DOMAIN adj \ {nodeId} |-> FilterEdges(adj[n], nodeId)]
RemoveFromGraph(adj, nodeId) ==
    LET others == DOMAIN adj \ {nodeId}
        kept == {n \in others : FilterEdges(adj[n], nodeId) # {}}
    IN [n \in kept |-> FilterEdges(adj[n], nodeId)]

Task(nodeId) ==
    [nodeId |-> nodeId, pc |-> "fetchGraph", adjacencyList |-> EmptyMap,
     roomMapping |-> <<>>, allOk |-> TRUE]
Finished(task, ok) ==
    [task EXCEPT !.pc = "done", !.adjacencyList = EmptyMap, !.roomMapping = <<>>,
                 !.allOk = task.allOk /\ ok]

Running == {i \in DOMAIN removals : removals[i].pc # "done"}
Fault(outcome) == IF outcome = "ok" THEN 0 ELSE 1

\* cubes.pop(), main.js:320, and a removal that takes the first cube instead.
Shifted(cbs) == SubSeq(cbs, 2, Len(cbs))
Popped(cbs) == SubSeq(cbs, 1, Len(cbs) - 1)

\* onRemoveCubeClick, main.js:310-336: pop the last cube, then start
\* removeCubeFromServer for its id without awaiting it.
onRemoveCubeClick ==
    /\ mainXrSession
    /\ Len(mainCubes) > 0
    /\ Len(removals) < MaxRemovals
    /\ mainCubes' = Popped(mainCubes)
    /\ removals' = Append(removals, Task(NodeId(mainCubes[Len(mainCubes)].cubeId)))
    /\ overlapped' = (overlapped \/ Running # {})
    /\ lastOp' = "removeCubeClick"
    /\ UNCHANGED <<navVars, storeVars, mainXrSession, mapVars, pathObs,
                   initialGraph, graphReplaced, roomsReplaced, faults>>

\* Lines 341-364: GET /api/graph, then the cascade on the fetched copy.
RemoveFetchGraph ==
    \E i \in DOMAIN removals, outcome \in Outcomes :
        LET task == removals[i] IN
        /\ task.pc = "fetchGraph"
        /\ faults + Fault(outcome) <= MaxFaults
        /\ faults' = faults + Fault(outcome)
        /\ removals' = [removals EXCEPT ![i] =
              CASE outcome = "ok" ->
                     [task EXCEPT !.pc = "postGraph",
                                  !.adjacencyList = RemoveFromGraph(graphDoc, task.nodeId)]
                [] outcome = "status500" ->
                     [task EXCEPT !.pc = "postGraph", !.allOk = FALSE,
                                  !.adjacencyList = RemoveFromGraph(EmptyMap, task.nodeId)]
                [] OTHER -> Finished(task, FALSE)]
        /\ lastOp' = "removeFetchGraph"
        /\ UNCHANGED <<navVars, storeVars, mainXrSession, mainCubes, mapVars, pathObs,
                       initialGraph, graphReplaced, roomsReplaced, overlapped>>

\* Lines 366-371: POST /api/graph; the response is not looked at.
RemovePostGraph ==
    \E i \in DOMAIN removals, outcome \in Outcomes :
        LET task == removals[i] IN
        /\ task.pc = "postGraph"
        /\ faults + Fault(outcome) <= MaxFaults
        /\ faults' = faults + Fault(outcome)
        /\ graphDoc' = IF outcome = "ok" THEN task.adjacencyList ELSE graphDoc
        /\ graphReplaced' = IF outcome = "ok"
                            THEN graphReplaced \cup {task.nodeId} ELSE graphReplaced
        /\ removals' = [removals EXCEPT ![i] =
              IF outcome = "networkError" THEN Finished(task, FALSE)
              ELSE [task EXCEPT !.pc = "fetchRooms", !.adjacencyList = EmptyMap,
                                !.allOk = task.allOk /\ outcome = "ok"]]
        /\ lastOp' = "removePostGraph"
        /\ UNCHANGED <<navVars, positionsDoc, roomsDoc, mainXrSession, mainCubes, mapVars, pathObs,
                       initialGraph, roomsReplaced, overlapped>>

\* Lines 373-384: GET /api/rooms and delete the node's entry if it has one.
RemoveFetchRooms ==
    \E i \in DOMAIN removals, outcome \in Outcomes :
        LET task == removals[i]
            roomMapping == IF outcome = "ok" THEN roomsDoc ELSE <<>>
        IN
        /\ task.pc = "fetchRooms"
        /\ faults + Fault(outcome) <= MaxFaults
        /\ faults' = faults + Fault(outcome)
        /\ removals' = [removals EXCEPT ![i] =
              IF outcome = "networkError" THEN Finished(task, FALSE)
              ELSE IF RoomOf(roomMapping, task.nodeId) # UNDEFINED
                   THEN [task EXCEPT !.pc = "postRooms",
                                     !.roomMapping = RoomsWithout(roomMapping, task.nodeId)]
                   ELSE Finished(task, outcome = "ok")]
        /\ lastOp' = "removeFetchRooms"
        /\ UNCHANGED <<navVars, storeVars, mainXrSession, mainCubes, mapVars, pathObs,
                       initialGraph, graphReplaced, roomsReplaced, overlapped>>

\* Lines 385-391: POST /api/rooms.
RemovePostRooms ==
    \E i \in DOMAIN removals, outcome \in Outcomes :
        LET task == removals[i] IN
        /\ task.pc = "postRooms"
        /\ faults + Fault(outcome) <= MaxFaults
        /\ faults' = faults + Fault(outcome)
        /\ roomsDoc' = IF outcome = "ok" THEN task.roomMapping ELSE roomsDoc
        /\ roomsReplaced' = IF outcome = "ok"
                            THEN roomsReplaced \cup {task.nodeId} ELSE roomsReplaced
        /\ removals' = [removals EXCEPT ![i] = Finished(task, outcome = "ok")]
        /\ lastOp' = "removePostRooms"
        /\ UNCHANGED <<navVars, positionsDoc, graphDoc, mainXrSession, mainCubes, mapVars, pathObs,
                       initialGraph, graphReplaced, overlapped>>

----------------------------------------------------------------------------
\* Specification SpecRemove: the mapping client removes waypoints while the
\* store holds a graph and a room mapping.

\* The graphs of the store.  A link joins two waypoints; the MaxEdges links
\* nearest the last waypoints are the candidates, a graph holds some of them,
\* and stores each in both directions, upwards only or downwards only.  The
\* link between a and b is written as bare ids when a + b is even and as
\* {node, distance} objects otherwise.
Links == {p \in CubeIds \X CubeIds : p[1] < p[2]}
LinkRank(l) ==
    Cardinality({m \in Links : m[2] > l[2] \/ (m[2] = l[2] /\ m[1] >= l[1])})
CandidateLinks == {l \in Links : LinkRank(l) <= MaxEdges}
LinkKinds == {"both", "up", "down"}
LinkEdge(a, b) ==
    IF (a + b) % 2 = 0 THEN BareEdge(NodeId(b)) ELSE ObjectEdge(NodeId(b), 1)
LinkGraph(ls, kind) ==
    LET arcs == {<<l[1], l[2]>> : l \in {m \in ls : kind \in {"both", "up"}}}
                \cup {<<l[2], l[1]>> : l \in {m \in ls : kind \in {"both", "down"}}}
    IN [n \in {NodeId(a[1]) : a \in arcs} |->
           {LinkEdge(a[1], a[2]) : a \in {b \in arcs : NodeId(b[1]) = n}}]
StoredGraphs ==
    {LinkGraph(ls, kind) : ls \in SUBSET CandidateLinks, kind \in LinkKinds}

\* The room mappings of the store: no room at all, or one room per waypoint.
RoomLabel(n) == IF n = 0 THEN "lobby" ELSE "lab"
StoredRooms ==
    {<<>>, [i \in 1 .. NumCubes |-> [id |-> NodeId(i - 1), room |-> RoomLabel(i - 1)]]}

InitRemove ==
    /\ positionsDoc = NoPositions
    /\ graphDoc \in StoredGraphs
    /\ roomsDoc \in StoredRooms
    /\ mainXrSession = TRUE
    /\ mainCubes = [i \in 1 .. NumCubes |-> MainCube(i - 1, Origin, 0)]
    /\ removals = <<>>
    /\ MapIdle
    /\ initialGraph = graphDoc
    /\ graphReplaced = {}
    /\ roomsReplaced = {}
    /\ overlapped = FALSE
    /\ faults = 0
    /\ NavIdle /\ PathObsIdle
    /\ lastOp = "init"

NextRemove ==
    \/ onRemoveCubeClick
    \/ RemoveFetchGraph
    \/ RemovePostGraph
    \/ RemoveFetchRooms
    \/ RemovePostRooms

SpecRemove == InitRemove /\ [][NextRemove]_vars

----------------------------------------------------------------------------
\* Claims about removeWaypoint (SpecRemove).

HasEntry(adj, nodeId) == nodeId \in DOMAIN adj
References(adj, nodeId) ==
    \E n \in DOMAIN adj : \E e \in adj[n] : e.node = nodeId
InMemory(nodeId) == \E i \in DOMAIN mainCubes : NodeId(mainCubes[i].cubeId) = nodeId
RoomMapped(roomMapping, nodeId) == HasKey(roomMapping, nodeId)

Done(i) == removals[i].pc = "done"

\* C3: after a removeWaypoint(id) whose store reads and writes all succeed,
\* with no other writer, the persisted graph has no entry keyed by id, no
\* edge of either form referencing id, and no entry with zero edges.
C3_RemovalCascades ==
    \A i \in DOMAIN removals :
        (Done(i) /\ removals[i].allOk /\ ~overlapped)
        => /\ ~HasEntry(graphDoc, removals[i].nodeId)
           /\ ~References(graphDoc, removals[i].nodeId)
           /\ \A n \in DOMAIN graphDoc : graphDoc[n] # {}

\* The spec's example: the removed waypoint had an entry and was the only
\* neighbour of two other waypoints; the persisted graph is now empty.
C3_Witness ==
    /\ Len(removals) = 1 /\ Done(1) /\ removals[1].allOk
    /\ HasEntry(initialGraph, removals[1].nodeId)
    /\ Cardinality({n \in DOMAIN initialGraph \ {removals[1].nodeId} :
                       \E e \in initialGraph[n] : e.node = removals[1].nodeId}) >= 2
    /\ graphDoc = EmptyMap

\* C4: removeWaypoint is all-or-nothing: once it has finished, whatever its
\* store operations did, either all four effects are in place or none is.
AllEffects(nodeId) ==
    /\ ~InMemory(nodeId)
    /\ ~HasEntry(graphDoc, nodeId)
    /\ ~References(graphDoc, nodeId)
    /\ ~RoomMapped(roomsDoc, nodeId)
NoEffects(nodeId) ==
    /\ InMemory(nodeId)
    /\ nodeId \notin graphReplaced
    /\ nodeId \notin roomsReplaced
C4_AllOrNothing ==
    \A i \in DOMAIN removals :
        (Done(i) /\ ~overlapped)
        => (AllEffects(removals[i].nodeId) \/ NoEffects(removals[i].nodeId))

RemovedIds == {removals[i].nodeId : i \in DOMAIN removals}
OtherEdgesKept ==
    \A n \in DOMAIN initialGraph \ RemovedIds :
        \A e \in initialGraph[n] :
            e.node \notin RemovedIds => (n \in DOMAIN graphDoc /\ e \in graphDoc[n])
OtherRoomsKept ==
    /\ roomsDoc = <<>> => roomsReplaced = {}
    /\ roomsDoc # <<>> =>
          \A c \in CubeIds : NodeId(c) \notin RemovedIds
                                => RoomOf(roomsDoc, NodeId(c)) = RoomLabel(c)

\* C25: whichever store operations of a removal fail, every edge between two
\* other waypoints and every room label of another waypoint that the store
\* held before is still held after.
C25_RemovalFrame ==
    OtherEdgesKept /\ OtherRoomsKept

\* What holds of the code: the room labels of the other waypoints are always
\* kept, and so are the other edges as long as no store operation fails.
RemovalFrameWithoutFaults ==
    OtherRoomsKept /\ (faults = 0 => OtherEdgesKept)

----------------------------------------------------------------------------
\* The scene of the navigation client.  A cube is
\* [cubeId, position, isDestination, visible]; a tube or an arrow is
\* [start, end, color]: the segment leaves the cube at start towards the cube
\* at end (the tube is drawn up to the midpoint, where the arrow sits).

Cube(cubeId, position, isDestination, visible) ==
    [cubeId |-> cubeId, position |-> position,
     isDestination |-> isDestination, visible |-> visible]
Segment(start, end, color) == [start |-> start, end |-> end, color |-> color]

\* The square of cameraPosition.distanceTo(position).
DistSq(a, b) == (a[1] - b[1]) * (a[1] - b[1]) + (a[2] - b[2]) * (a[2] - b[2])

\* navigation.js:842: the destination is shown within 2.0 metres.
ProximityThreshold == 2

\* cubes.find(c => `cube_${c.userData.cubeId}` === nodeId): the index of the
\* first such cube, 0 when there is none.
FindCube(cbs, nodeId) ==
    LET hits == {i \in DOMAIN cbs : NodeId(cbs[i].cubeId) = nodeId}
    IN IF hits = {} THEN 0 ELSE Min(hits)

\* navigation.js:807-823: the index (from 0) of the route waypoint closest to
\* the camera; a later waypoint replaces an earlier one only when closer.
RECURSIVE ScanPathLast(_, _, _, _, _, _)
ScanPathLast(path, cbs, cam, index, currentPathIndex, minDistance) ==
    IF index >= Len(path) THEN currentPathIndex
    ELSE LET c == FindCube(cbs, path[index + 1])
         IN IF c # 0 /\ DistSq(cam, cbs[c].position) <= minDistance
            THEN ScanPathLast(path, cbs, cam, index + 1, index,
                              DistSq(cam, cbs[c].position))
            ELSE ScanPathLast(path, cbs, cam, index + 1, currentPathIndex, minDistance)

RECURSIVE ScanPath(_, _, _, _, _, _)
ScanPath(path, cbs, cam, index, currentPathIndex, minDistance) ==
    IF index >= Len(path) THEN currentPathIndex
    ELSE LET c == FindCube(cbs, path[index + 1])
         IN IF c # 0 /\ DistSq(cam, cbs[c].position) < minDistance
            THEN ScanPath(path, cbs, cam, index + 1, index,
                          DistSq(cam, cbs[c].position))
            ELSE ScanPath(path, cbs, cam, index + 1, currentPathIndex, minDistance)

\* navigation.js:825-829: for (i = k; i < Math.min(k + 3, length - 1); i++).
WindowOf(path, currentPathIndex) ==
    LET upper == Min({currentPathIndex + 3, Len(path) - 1})
    IN [j \in 1 .. (upper - currentPathIndex) |-> path[currentPathIndex + j]]

\* navigation.js:831-843.
ShowDestinationOf(path, cbs, cam, window) ==
    LET d == FindCube(cbs, path[Len(path)])
    IN /\ d # 0
       /\ \/ DistSq(cam, cbs[d].position) < ProximityThreshold * ProximityThreshold
          \/ path[Len(path)] \in Range(window)

\* navigation.js:848-889: a green tube and arrow from each window waypoint to
\* the next one, where both cubes exist.
RECURSIVE GreenSegments(_, _, _)
GreenSegments(window, cbs, i) ==
    IF i >= Len(window) THEN <<>>
    ELSE LET a == FindCube(cbs, window[i])
             b == FindCube(cbs, window[i + 1])
         IN (IF a # 0 /\ b # 0
             THEN <<Segment(cbs[a].position, cbs[b].position, "green")>>
             ELSE <<>>) \o GreenSegments(window, cbs, i + 1)

\* navigation.js:891-926: the red tube and arrow from the last window
\* waypoint to the destination.
RedSegmentsUngated(path, cbs, window, show) ==
    IF Len(window) > 0
    THEN LET a == FindCube(cbs, window[Len(window)])
             b == FindCube(cbs, path[Len(path)])
         IN IF a # 0 /\ b # 0
            THEN <<Segment(cbs[a].position, cbs[b].position, "red")>>
            ELSE <<>>
    ELSE <<>>
RedSegments(path, cbs, window, show) ==
    IF show /\ Len(window) > 0 /\ window[Len(window)] # path[Len(path)]
    THEN LET a == FindCube(cbs, window[Len(window)])
             b == FindCube(cbs, path[Len(path)])
         IN IF a # 0 /\ b # 0
            THEN <<Segment(cbs[a].position, cbs[b].position, "red")>>
            ELSE <<>>
    ELSE <<>>

\* showPathCubes, navigation.js:941-946: every cube is hidden, whatever the
\* two arguments are.
showPathCubes(cbs, visibleNodes, show) ==
    [i \in DOMAIN cbs |-> [cbs[i] EXCEPT !.visible = FALSE]]

\* A windower without clearPathVisualization (line 803): the segments and
\* markers of earlier ticks stay.
updateSlidingWindowPathNoClear(active, session, path, cbs, cam, tubes, arrows) ==
    IF ~active \/ Len(path) < 2 \/ ~session
    THEN [ran |-> FALSE, cubes |-> cbs, pathTubes |-> tubes, pathArrows |-> arrows,
          waypointsToShow |-> <<>>, showDestination |-> FALSE]
    ELSE LET k == ScanPath(path, cbs, cam, 0, 0, Infinity)
             window == WindowOf(path, k)
             show == ShowDestinationOf(path, cbs, cam, window)
             segs == GreenSegments(window, cbs, 1) \o RedSegments(path, cbs, window, show)
         IN [ran |-> TRUE,
             cubes |-> showPathCubes(cbs, window, show),
             pathTubes |-> tubes \o segs, pathArrows |-> arrows \o segs,
             waypointsToShow |-> window, showDestination |-> show]

\* updateSlidingWindowPath, navigation.js:799-930, as the new values of
\* (cubes, pathTubes, pathArrows) and its locals; ran is FALSE when line 800
\* returns.
updateSlidingWindowPath(active, session, path, cbs, cam, tubes, arrows) ==
    IF ~active \/ Len(path) < 2 \/ ~session
    THEN [ran |-> FALSE, cubes |-> cbs, pathTubes |-> tubes, pathArrows |-> arrows,
          waypointsToShow |-> <<>>, showDestination |-> FALSE]
    ELSE LET k == ScanPath(path, cbs, cam, 0, 0, Infinity)
             window == WindowOf(path, k)
             show == ShowDestinationOf(path, cbs, cam, window)
             segs == GreenSegments(window, cbs, 1) \o RedSegments(path, cbs, window, show)
         IN [ran |-> TRUE,
             cubes |-> showPathCubes(cbs, window, show),
             pathTubes |-> segs, pathArrows |-> segs,
             waypointsToShow |-> window, showDestination |-> show]

\* render, navigation.js:965-978 (the cosmetic rotation of the cubes is left
\* out).
render ==
    /\ ~hung
    /\ LET w == updateSlidingWindowPath(navigationActive, xrSession,
                    fullNavigationPath, cubes, cameraPosition, pathTubes, pathArrows)
       IN IF navigationActive /\ Len(fullNavigationPath) > 0 /\ w.ran
          THEN /\ cubes' = w.cubes
               /\ pathTubes' = w.pathTubes
               /\ pathArrows' = w.pathArrows
               /\ waypointsToShow' = w.waypointsToShow
               /\ showDestination' = w.showDestination
               /\ lastOp' = "window"
          ELSE /\ UNCHANGED <<sceneVars, windowObs>>
               /\ lastOp' = "render"
    /\ UNCHANGED <<xrSession, navigationActive, graphVars, fullNavigationPath,
                   cameraPosition, clientVars>>
    /\ UNCHANGED <<storeVars, mainVars, pathObs, removeObs>>

----------------------------------------------------------------------------
\* Specification SpecWindow: the windower on render ticks while the user
\* walks.  The route is the one the planner finds along a chain of waypoints
\* laid out on a line, each 1 m back, 1 m on or 3 m on from the previous one.
\* The initial state is the one Start Navigation leaves with the user on the
\* first waypoint: visualizePath (navigation.js:721-732) has stored the route
\* and run the windower once.

RouteGaps == {-1, 1, 3}

RECURSIVE LineUp(_, _)
LineUp(gaps, i) ==
    IF i = 0 THEN Origin ELSE <<LineUp(gaps, i - 1)[1] + gaps[i], 0>>

ChainGraph(len) ==
    [n \in {NodeId(i) : i \in 0 .. (len - 2)} |->
        {ObjectEdge(NodeId(ParseCubeId(n) + 1), 1)}]

CameraSpots(cbs) ==
    {cbs[i].position : i \in DOMAIN cbs}
    \cup {<<cbs[i].position[1] + 1, cbs[i].position[2]>> : i \in DOMAIN cbs}

InitWindow ==
    \E len \in 2 .. MaxRoute :
      \E gaps \in [1 .. (len - 1) -> RouteGaps] :
        LET cbs == [i \in 1 .. len |-> Cube(i - 1, LineUp(gaps, i - 1), i = len, FALSE)]
            cp == [i \in 1 .. len |-> [id |-> NodeId(i - 1), pos |-> cbs[i].position]]
            route == dijkstra(cp, ChainGraph(len), NodeId(0), NodeId(len - 1)).path
            w == updateSlidingWindowPath(TRUE, TRUE, route, cbs, Origin, <<>>, <<>>)
        IN /\ xrSession = TRUE
           /\ navigationActive = TRUE
           /\ cubes = w.cubes
           /\ cubePositions = cp
           /\ adjacencyList = ChainGraph(len)
           /\ fullNavigationPath = route
           /\ pathTubes = w.pathTubes
           /\ pathArrows = w.pathArrows
           /\ cameraPosition = Origin
           /\ waypointsToShow = w.waypointsToShow
           /\ showDestination = w.showDestination
           /\ referenceAnchor = Anchor(Origin, 0)
           /\ selectedDestination = RoomLabel(len - 1)
           /\ destinationNodeId = NodeId(len - 1)
           /\ nearestNodeId = NodeId(0)
           /\ loading = "idle"
           /\ calibrateVisible = FALSE
           /\ roomSelectorVisible = FALSE
           /\ startNavVisible = TRUE
           /\ hung = FALSE
           /\ justStopped = FALSE
           /\ positionsDoc =
                 [referenceAnchor |-> Anchor(Origin, 0),
                  cubes |-> [i \in 1 .. len |->
                               [id |-> NodeId(i - 1), worldPosition |-> cbs[i].position]]]
           /\ graphDoc = ChainGraph(len)
           /\ roomsDoc = <<[id |-> NodeId(len - 1), room |-> RoomLabel(len - 1)]>>
           /\ PathObsIdle /\ MainIdle /\ RemoveObsIdle
           /\ lastOp = "visualizePath"

\* The user walks: the camera is somewhere else.
MoveCamera ==
    /\ xrSession
    /\ cameraPosition' \in CameraSpots(cubes) \ {cameraPosition}
    /\ lastOp' = "move"
    /\ UNCHANGED <<xrSession, navigationActive, graphVars, fullNavigationPath,
                   sceneVars, windowObs, clientVars>>
    /\ UNCHANGED <<storeVars, mainVars, pathObs, removeObs>>

NextWindow ==
    \/ MoveCamera
    \/ render

SpecWindow == InitWindow /\ [][NextWindow]_vars

----------------------------------------------------------------------------
\* Claims about the windower (SpecWindow).

RouteLen == Len(fullNavigationPath)
DestinationId == fullNavigationPath[RouteLen]
RouteDistSq(i) ==
    DistSq(cameraPosition, cubes[FindCube(cubes, fullNavigationPath[i + 1])].position)

\* The lowest index (from 0) among the route waypoints closest to the camera.
ClosestIndex ==
    CHOOSE k \in 0 .. (RouteLen - 1) :
        /\ \A j \in 0 .. (RouteLen - 1) : RouteDistSq(k) <= RouteDistSq(j)
        /\ \A j \in 0 .. (k - 1) : RouteDistSq(k) < RouteDistSq(j)

\* C7: one windower invocation yields fullPath[k .. min(k+3, len-1)) with k
\* the lowest index among the route waypoints closest to the live position:
\* contiguous, in route order, at most 3 ids, computed from the current
\* inputs only.
C7_Window ==
    lastOp = "window"
    => /\ waypointsToShow =
            SubSeq(fullNavigationPath, ClosestIndex + 1,
                   Min({ClosestIndex + 3, RouteLen - 1}))
       /\ Len(waypointsToShow) <= 3

\* A 5-node route, the live position on node 2 alone: the window is
\* [node 2, node 3].
C7_Witness ==
    /\ lastOp = "window"
    /\ RouteLen = 5
    /\ RouteDistSq(2) = 0
    /\ \A j \in {0, 1, 3, 4} : RouteDistSq(j) > 0
    /\ waypointsToShow = <<fullNavigationPath[3], fullNavigationPath[4]>>

\* C8: on every windower invocation the destination is revealed exactly when
\* (a) the destination id lies inside the visible window or (b) the live
\* distance to the destination is below 2.0; and (a) does occur on planner
\* routes: a destination among the next three waypoints lies inside the
\* window.
DestinationNear ==
    DistSq(cameraPosition, cubes[FindCube(cubes, DestinationId)].position)
        < ProximityThreshold * ProximityThreshold
DestinationInWindow == DestinationId \in Range(waypointsToShow)
DestinationAmongNextThree == RouteLen - 1 < ClosestIndex + 3
C8_RevealRule ==
    lastOp = "window"
    => /\ showDestination <=> (DestinationInWindow \/ DestinationNear)
       /\ DestinationAmongNextThree => DestinationInWindow

\* What the code does instead: the window never holds the destination of a
\* planner route, and the reveal decision is the proximity test alone.
RevealIsProximityOnly ==
    lastOp = "window"
    => /\ ~DestinationInWindow
       /\ showDestination <=> DestinationNear

\* C9: a final-approach (red) segment is emitted on a tick only when the
\* destination is revealed and is not itself the last visible waypoint, and
\* it runs from the last visible waypoint to the destination; at most one
\* such segment exists at any time.
RedTubes == {i \in DOMAIN pathTubes : pathTubes[i].color = "red"}
C9_FinalApproach ==
    /\ Cardinality(RedTubes) <= 1
    /\ (lastOp = "window" /\ RedTubes # {})
       => /\ showDestination
          /\ Len(waypointsToShow) > 0
          /\ waypointsToShow[Len(waypointsToShow)] # DestinationId
          /\ \A i \in RedTubes :
                /\ pathTubes[i].start =
                      cubes[FindCube(cubes, waypointsToShow[Len(waypointsToShow)])].position
                /\ pathTubes[i].end = cubes[FindCube(cubes, DestinationId)].position

\* A full window of three waypoints followed by the final-approach segment.
C9_Witness ==
    /\ lastOp = "window"
    /\ RedTubes # {}
    /\ Len(waypointsToShow) = 3
    /\ Len(pathTubes) = 3

----------------------------------------------------------------------------
\* The navigation client: session, calibration, destination loading and the
\* navigation toggle.

\* A rotation by a number of quarter turns about the vertical axis, as
\* Vector3.applyQuaternion does it: one turn takes (x, z) to (z, -x).
RECURSIVE Rotate(_, _)
Rotate(v, turns) == IF turns = 0 THEN v ELSE Rotate(<<v[2], 0 - v[1]>>, turns - 1)

\* A reconciliation that leaves the rotation out.
ReconcileTranslationOnly(worldPosition, savedAnchor, userAnchor) ==
    LET savedRefPos == IF savedAnchor.present THEN savedAnchor.position ELSE Origin
        userRefPos == IF userAnchor.present THEN userAnchor.position ELSE Origin
    IN <<worldPosition[1] - savedRefPos[1] + userRefPos[1],
         worldPosition[2] - savedRefPos[2] + userRefPos[2]>>

\* navigation.js:428-452 and 482-499 (the same lines again at 512-526):
\* translate into the saved frame, rotate by userRefQuat * savedRefQuat^-1
\* when both orientations exist, translate into the user's frame.
Reconcile(worldPosition, savedAnchor, userAnchor) ==
    LET savedRefPos == IF savedAnchor.present THEN savedAnchor.position ELSE Origin
        userRefPos == IF userAnchor.present THEN userAnchor.position ELSE Origin
        hasDelta == /\ savedAnchor.present /\ savedAnchor.orientation # NoOrientation
                    /\ userAnchor.present /\ userAnchor.orientation # NoOrientation
        relativePos == <<worldPosition[1] - savedRefPos[1], worldPosition[2] - savedRefPos[2]>>
        rotated == IF hasDelta
                   THEN Rotate(relativePos,
                               (userAnchor.orientation - savedAnchor.orientation + 4) % 4)
                   ELSE relativePos
    IN <<rotated[1] + userRefPos[1], rotated[2] + userRefPos[2]>>

\* loadRoomMappings, navigation.js:349-380: the options of the room selector
\* are the distinct rooms of the mapping.
RoomOptions(roomMapping) == {roomMapping[i].room : i \in DOMAIN roomMapping}

\* A lookup that keeps the last match instead of breaking at the first.
FirstNodeForNoBreak(roomMapping, room) ==
    LET hits == {i \in DOMAIN roomMapping : roomMapping[i].room = room}
    IN IF hits = {} THEN NULL ELSE roomMapping[0 - Min({0 - i : i \in hits})].id

\* navigation.js:394-401: the first node id, in key order, mapped to the room.
FirstNodeFor(roomMapping, room) ==
    LET hits == {i \in DOMAIN roomMapping : roomMapping[i].room = room}
    IN IF hits = {} THEN NULL ELSE roomMapping[Min(hits)].id

\* navigation.js:455-506: one cube per stored waypoint, in document order;
\* only the destination is visible.
LoadedCubes(posData, destination, userAnchor) ==
    [i \in DOMAIN posData.cubes |->
        Cube(ParseCubeId(posData.cubes[i].id),
             Reconcile(posData.cubes[i].worldPosition, posData.referenceAnchor, userAnchor),
             posData.cubes[i].id = destination,
             posData.cubes[i].id = destination)]

\* cubePositions[id] = pos on an insertion-ordered map.
MapPut(m, id, pos) ==
    IF HasKey(m, id)
    THEN [i \in DOMAIN m |-> IF m[i].id = id THEN [id |-> id, pos |-> pos] ELSE m[i]]
    ELSE Append(m, [id |-> id, pos |-> pos])

\* navigation.js:510-528: every stored waypoint is written into cubePositions;
\* nothing is taken out of it.
RECURSIVE StorePositions(_, _, _, _)
StorePositions(cp, posData, userAnchor, i) ==
    IF i > Len(posData.cubes) THEN cp
    ELSE StorePositions(
            MapPut(cp, posData.cubes[i].id,
                   Reconcile(posData.cubes[i].worldPosition, posData.referenceAnchor,
                             userAnchor)),
            posData, userAnchor, i + 1)

\* findNearestCube, navigation.js:627-653: the new value of nearestNodeId.
RECURSIVE NearestScan(_, _, _, _, _)
NearestScan(cbs, cam, i, nearestCube, minDistance) ==
    IF i > Len(cbs) THEN nearestCube
    ELSE IF DistSq(cam, cbs[i].position) < minDistance
         THEN NearestScan(cbs, cam, i + 1, i, DistSq(cam, cbs[i].position))
         ELSE NearestScan(cbs, cam, i + 1, nearestCube, minDistance)
findNearestCube(session, cbs, cam, nearest) ==
    IF ~session \/ Len(cbs) = 0 THEN nearest
    ELSE LET nearestCube == NearestScan(cbs, cam, 1, 0, Infinity)
         IN IF nearestCube # 0 THEN NodeId(cbs[nearestCube].cubeId) ELSE nearest

\* resetPath with clearPathVisualization, navigation.js:932-939 and 781-797.
resetPath(cbs) ==
    [fullNavigationPath |-> <<>>, cubes |-> cbs, pathTubes |-> <<>>, pathArrows |-> <<>>,
     waypointsToShow |-> <<>>, showDestination |-> FALSE]

\* visualizePath, navigation.js:721-732, called with navigation active in a
\* live session.
visualizePathKeepShort(path, cbs, cam) ==
    LET w == updateSlidingWindowPath(TRUE, TRUE, path, cbs, cam, <<>>, <<>>)
    IN [fullNavigationPath |-> path, cubes |-> w.cubes,
        pathTubes |-> w.pathTubes, pathArrows |-> w.pathArrows,
        waypointsToShow |-> w.waypointsToShow, showDestination |-> w.showDestination]
visualizePath(path, cbs, cam) ==
    IF Len(path) < 2 THEN resetPath(cbs)
    ELSE LET w == updateSlidingWindowPath(TRUE, TRUE, path, cbs, cam, <<>>, <<>>)
         IN [fullNavigationPath |-> path, cubes |-> w.cubes,
             pathTubes |-> w.pathTubes, pathArrows |-> w.pathArrows,
             waypointsToShow |-> w.waypointsToShow, showDestination |-> w.showDestination]

\* navigation.js:614-623: only the destination cube stays visible.
ShowOnlyDestination(cbs) ==
    [i \in DOMAIN cbs |-> [cbs[i] EXCEPT !.visible = cbs[i].isDestination]]

storeFrame == UNCHANGED <<storeVars, mainVars, pathObs, removeObs>>

\* onStartARClick, navigation.js:127-186, with no session yet and the session
\* request granted.
onStartARClick ==
    /\ ~hung
    /\ ~xrSession
    /\ xrSession' = TRUE
    /\ calibrateVisible' = TRUE
    /\ roomSelectorVisible' = FALSE
    /\ startNavVisible' = FALSE
    /\ lastOp' = "startAR"
    /\ justStopped' = FALSE
    /\ UNCHANGED <<navigationActive, graphVars, fullNavigationPath, sceneVars,
                   cameraPosition, windowObs, referenceAnchor, planVars, hung>>
    /\ storeFrame

\* A session end that leaves navigationActive as it is.
onSessionEndedStillNavigating ==
    /\ ~hung
    /\ xrSession
    /\ xrSession' = FALSE
    /\ calibrateVisible' = FALSE
    /\ startNavVisible' = FALSE
    /\ roomSelectorVisible' = FALSE
    /\ lastOp' = "sessionEnded"
    /\ justStopped' = FALSE
    /\ UNCHANGED <<navigationActive, graphVars, fullNavigationPath, sceneVars,
                   cameraPosition, windowObs, referenceAnchor, planVars, hung>>
    /\ storeFrame

\* onSessionEnded, navigation.js:188-227 (Stop AR, or the device ends the
\* session).
onSessionEnded ==
    /\ ~hung
    /\ xrSession
    /\ xrSession' = FALSE
    /\ calibrateVisible' = FALSE
    /\ startNavVisible' = FALSE
    /\ navigationActive' = FALSE
    /\ roomSelectorVisible' = FALSE
    /\ lastOp' = "sessionEnded"
    /\ justStopped' = FALSE
    /\ UNCHANGED <<graphVars, fullNavigationPath, sceneVars, cameraPosition,
                   windowObs, referenceAnchor, planVars, hung>>
    /\ storeFrame

\* The surveyed waypoints cube_0 .. cube_(NumCubes-1) stand 2 m apart on a
\* line.  The user stands at the first or at the last of these spots, and
\* holds the device along the line at the first one, a quarter turn off at
\* the last one.
Survey(cubeId) == <<2 * cubeId, 0>>
NavSpots == {Survey(0), Survey(NumCubes - 1)}
CameraYaw(position) == IF position = Survey(0) THEN 0 ELSE 1

\* onCalibrateClick, navigation.js:300-347: the anchor is the camera pose.
onCalibrateClick ==
    /\ ~hung
    /\ calibrateVisible
    /\ IF ~xrSession
       THEN UNCHANGED <<referenceAnchor, uiVars>>
       ELSE /\ referenceAnchor' = Anchor(cameraPosition, CameraYaw(cameraPosition))
            /\ calibrateVisible' = FALSE
            /\ roomSelectorVisible' = TRUE
            /\ UNCHANGED startNavVisible
    /\ lastOp' = "calibrate"
    /\ justStopped' = FALSE
    /\ UNCHANGED <<xrSession, navigationActive, graphVars, fullNavigationPath,
                   sceneVars, cameraPosition, windowObs, planVars, hung>>
    /\ storeFrame

\* The change handler of the room selector, navigation.js:81-103, up to the
\* first await: loadDestinationCube has sent its request for the rooms.  A
\* room is chosen while no earlier choice is still loading.
onRoomChange ==
    /\ ~hung
    /\ roomSelectorVisible
    /\ loading = "idle"
    /\ \E room \in RoomOptions(roomsDoc) : selectedDestination' = room
    /\ navigationActive' = FALSE
    /\ loading' = "fetchRooms"
    /\ lastOp' = "roomChange"
    /\ justStopped' = FALSE
    /\ UNCHANGED <<xrSession, graphVars, fullNavigationPath, sceneVars,
                   cameraPosition, windowObs, referenceAnchor, destinationNodeId,
                   nearestNodeId, uiVars, hung>>
    /\ storeFrame

\* navigation.js:93-101, after loadGraphData: the Start Navigation button is
\* shown when a destination node is resolved.
FinishRoomChange(destination) ==
    /\ loading' = "idle"
    /\ startNavVisible' = (startNavVisible \/ destination # NULL)
    /\ UNCHANGED <<calibrateVisible, roomSelectorVisible>>

\* loadDestinationCube, navigation.js:385-408: the answer for the rooms.
loadDestinationCubeRooms ==
    /\ ~hung
    /\ loading = "fetchRooms"
    /\ \E outcome \in Outcomes :
         IF outcome = "ok"
         THEN /\ destinationNodeId' = FirstNodeFor(roomsDoc, selectedDestination)
              /\ loading' = IF destinationNodeId' = NULL THEN "fetchGraph"
                            ELSE "fetchPositions"
              /\ lastOp' = "loadRooms"
         ELSE /\ UNCHANGED destinationNodeId
              /\ loading' = "fetchGraph"
              /\ lastOp' = "loadRoomsFailed"
    /\ UNCHANGED <<xrSession, navigationActive, graphVars, fullNavigationPath,
                   sceneVars, cameraPosition, windowObs, referenceAnchor,
                   selectedDestination, nearestNodeId, uiVars, hung, justStopped>>
    /\ storeFrame

\* loadDestinationCube, navigation.js:410-532: the answer for the positions;
\* loadGraphData then sends its request.
loadDestinationCubePositions ==
    /\ ~hung
    /\ loading = "fetchPositions"
    /\ \E outcome \in Outcomes :
         /\ IF outcome = "ok" /\ Len(positionsDoc.cubes) > 0
            THEN /\ cubes' = LoadedCubes(positionsDoc, destinationNodeId,
                                         referenceAnchor)
                 /\ cubePositions' =
                        StorePositions(cubePositions, positionsDoc, referenceAnchor, 1)
            ELSE UNCHANGED <<cubes, cubePositions>>
         /\ lastOp' = IF outcome = "ok" THEN "loadPositions"
                      ELSE "loadPositionsFailed"
    /\ loading' = "fetchGraph"
    /\ UNCHANGED <<xrSession, navigationActive, adjacencyList, fullNavigationPath,
                   pathTubes, pathArrows, cameraPosition, windowObs, referenceAnchor,
                   selectedDestination, destinationNodeId, nearestNodeId, uiVars,
                   hung, justStopped>>
    /\ storeFrame

\* loadGraphData, navigation.js:534-548, and the end of the change handler.
loadGraphData ==
    /\ ~hung
    /\ loading = "fetchGraph"
    /\ \E outcome \in Outcomes :
         IF outcome = "ok"
         THEN /\ adjacencyList' = graphDoc
              /\ lastOp' = "loadGraph"
         ELSE /\ UNCHANGED adjacencyList
              /\ lastOp' = "loadGraphFailed"
    /\ FinishRoomChange(destinationNodeId)
    /\ UNCHANGED <<xrSession, navigationActive, cubePositions, fullNavigationPath,
                   sceneVars, cameraPosition, windowObs, referenceAnchor,
                   selectedDestination, destinationNodeId, nearestNodeId,
                   hung, justStopped>>
    /\ storeFrame

\* onStartNavigationClick, navigation.js:550-625.
onStartNavigationClick ==
    /\ ~hung
    /\ startNavVisible
    /\ IF ~xrSession \/ ~referenceAnchor.present
       THEN /\ lastOp' = "navRefused"
            /\ UNCHANGED <<navigationActive, fullNavigationPath, sceneVars, windowObs,
                           nearestNodeId, roomSelectorVisible, hung, justStopped>>
       ELSE IF ~navigationActive
       THEN LET nearest == findNearestCube(xrSession, cubes, cameraPosition, nearestNodeId)
                planned == IF nearest # NULL /\ destinationNodeId # NULL
                           THEN dijkstra(cubePositions, adjacencyList, nearest,
                                         destinationNodeId)
                           ELSE NotFound
                shown == visualizePath(planned.path, cubes, cameraPosition)
            IN /\ nearestNodeId' = nearest
               /\ roomSelectorVisible' = FALSE
               /\ justStopped' = FALSE
               /\ IF planned.kind = "diverges"
                  THEN /\ hung' = TRUE
                       /\ navigationActive' = TRUE
                       /\ lastOp' = "navHung"
                       /\ UNCHANGED <<fullNavigationPath, sceneVars, windowObs>>
                  ELSE IF planned.kind = "found"
                  THEN /\ navigationActive' = TRUE
                       /\ fullNavigationPath' = shown.fullNavigationPath
                       /\ cubes' = shown.cubes
                       /\ pathTubes' = shown.pathTubes
                       /\ pathArrows' = shown.pathArrows
                       /\ waypointsToShow' = shown.waypointsToShow
                       /\ showDestination' = shown.showDestination
                       /\ lastOp' = IF justStopped THEN "navOnAgain" ELSE "navOn"
                       /\ UNCHANGED hung
                  ELSE /\ navigationActive' = FALSE
                       /\ lastOp' = "navReverted"
                       /\ UNCHANGED <<fullNavigationPath, sceneVars, windowObs, hung>>
       ELSE LET cleared == resetPath(ShowOnlyDestination(cubes))
            IN /\ navigationActive' = FALSE
               /\ roomSelectorVisible' = TRUE
               /\ fullNavigationPath' = cleared.fullNavigationPath
               /\ cubes' = cleared.cubes
               /\ pathTubes' = cleared.pathTubes
               /\ pathArrows' = cleared.pathArrows
               /\ waypointsToShow' = cleared.waypointsToShow
               /\ showDestination' = cleared.showDestination
               /\ justStopped' = TRUE
               /\ lastOp' = "navOff"
               /\ UNCHANGED <<nearestNodeId, hung>>
    /\ UNCHANGED <<xrSession, graphVars, cameraPosition, referenceAnchor,
                   selectedDestination, destinationNodeId, loading,
                   calibrateVisible, startNavVisible>>
    /\ storeFrame

----------------------------------------------------------------------------
\* Specification SpecNav: the navigation client from page load on, against a
\* store the mapping client has filled.

\* The positions document that saveCubePositions of the mapping client
\* writes (main.js:441-497) after its calibration at the fixed origin
\* (main.js:399-421).
SurveyedPositions ==
    [referenceAnchor |-> Anchor(Origin, 0),
     cubes |-> [i \in 1 .. NumCubes |->
                  [id |-> NodeId(i - 1), worldPosition |-> Survey(i - 1),
                   rotation |-> 0]]]

\* The graph document: the one-way corridor cube_0 -> cube_1 -> ...
Corridor == {l \in Links : l[2] = l[1] + 1}

\* The rooms document: the lab at the last waypoint, and the annex at a
\* waypoint that was placed but never stored.
SurveyedRooms ==
    <<[id |-> NodeId(NumCubes - 1), room |-> "lab"],
      [id |-> NodeId(NumCubes), room |-> "annex"]>>

\* The store is either still empty or holds the survey.
InitNav ==
    /\ \/ StoreEmpty
       \/ /\ positionsDoc = SurveyedPositions
          /\ graphDoc = LinkGraph(Corridor, "up")
          /\ roomsDoc = SurveyedRooms
    /\ cubePositions = <<>> /\ adjacencyList = EmptyMap /\ SceneIdle
    /\ \E selectorShown \in BOOLEAN : ClientLoaded(selectorShown)
    /\ PathObsIdle /\ MainIdle /\ RemoveObsIdle
    /\ lastOp = "init"

\* The user walks to another spot.
Walk ==
    /\ xrSession
    /\ cameraPosition' \in NavSpots \ {cameraPosition}
    /\ lastOp' = "move"
    /\ UNCHANGED <<xrSession, navigationActive, graphVars, fullNavigationPath,
                   sceneVars, windowObs, clientVars>>
    /\ storeFrame

NextNav ==
    \/ onStartARClick
    \/ onSessionEnded
    \/ onCalibrateClick
    \/ onRoomChange
    \/ loadDestinationCubeRooms
    \/ loadDestinationCubePositions
    \/ loadGraphData
    \/ onStartNavigationClick
    \/ render
    \/ Walk

SpecNav == InitNav /\ [][NextNav]_vars

----------------------------------------------------------------------------
\* Claims about the navigation toggle and the session (SpecNav).

PathCleared ==
    fullNavigationPath = <<>> /\ pathTubes = <<>> /\ pathArrows = <<>>

\* C6: immediately after navigation is toggled off, and immediately after the
\* AR session ends, the stored full route is empty and no emitted path
\* segment or direction marker remains.
C6_EndingClears ==
    lastOp \in {"navOff", "sessionEnded"} => PathCleared

\* The half of it that the toggle keeps: right after toggling off, all is
\* cleared.
ToggleOffClears ==
    lastOp = "navOff" => PathCleared

\* The cube nearest to the camera, the first one in array order among equals.
NearestCube ==
    CHOOSE i \in DOMAIN cubes :
        /\ \A j \in DOMAIN cubes :
              DistSq(cameraPosition, cubes[i].position)
                  <= DistSq(cameraPosition, cubes[j].position)
        /\ \A j \in 1 .. (i - 1) :
              DistSq(cameraPosition, cubes[i].position)
                  < DistSq(cameraPosition, cubes[j].position)

\* The route from the waypoint now nearest to the user to the current
\* destination, and the segments of a first windower run over a route.
PlannedRoute ==
    dijkstra(cubePositions, adjacencyList, NodeId(cubes[NearestCube].cubeId),
             destinationNodeId).path
FreshSegments(route) ==
    updateSlidingWindowPath(TRUE, TRUE, route, cubes, cameraPosition, <<>>, <<>>).pathTubes

\* C10: after navigation is toggled off and then on again, the stored route
\* is exactly the route computed at that moment from the waypoint then
\* nearest to the user to the current destination, and the segments are
\* those of that route alone.
C10_RestartStoresPlannedRoute ==
    lastOp = "navOnAgain"
    => /\ nearestNodeId = NodeId(cubes[NearestCube].cubeId)
       /\ fullNavigationPath = PlannedRoute
       /\ pathTubes = FreshSegments(PlannedRoute)
       /\ pathArrows = pathTubes

\* C10 as the code has it: the planned route is stored when it has at least
\* two waypoints; a planned route of one waypoint (the user already stands at
\* the destination) leaves the stored route and the segments empty.  Either
\* way nothing of the earlier run is left.
C10_RestartRecomputes ==
    lastOp = "navOnAgain"
    => /\ nearestNodeId = NodeId(cubes[NearestCube].cubeId)
       /\ IF Len(PlannedRoute) >= 2
          THEN /\ fullNavigationPath = PlannedRoute
               /\ pathTubes = FreshSegments(PlannedRoute)
               /\ pathArrows = pathTubes
          ELSE PathCleared

\* Navigation restarted after a stop, with a route of three waypoints.
C10_Witness ==
    /\ lastOp = "navOnAgain"
    /\ Len(fullNavigationPath) >= 3
    /\ pathTubes # <<>>

\* A step of onStartNavigationClick that got past its calibration guard.
StartClicked ==
    lastOp' \in {"navOn", "navOnAgain", "navReverted", "navHung"}

\* Planning cannot succeed: no cube is loaded, no destination is resolved, or
\* no route leads from the nearest waypoint to the destination.
NearestId == NodeId(cubes[NearestCube].cubeId)
PlanningImpossible ==
    \/ cubes = <<>>
    \/ destinationNodeId = NULL
    \/ RouteWeights(adjacencyList, NearestId, destinationNodeId, {NearestId}) = {}

RevertsWhenHandlerReturns ==
    [][(/\ xrSession /\ referenceAnchor.present /\ ~navigationActive
        /\ PlanningImpossible
        /\ StartClicked /\ ~hung')
       => (/\ lastOp' = "navReverted"
           /\ navigationActive' = FALSE
           /\ fullNavigationPath' = fullNavigationPath)]_vars

\* The steps of Start Navigation and of loading the waypoints for a selected
\* destination.
StartOps == {"navRefused", "navOn", "navOnAgain", "navReverted", "navHung"}
LoadOps ==
    {"roomChange", "loadRooms", "loadRoomsFailed", "loadPositions",
     "loadPositionsFailed", "loadGraph", "loadGraphFailed"}

\* C12: while no reference anchor exists, Start Navigation and loading and
\* reconciling the waypoints for a selected destination return without
\* changing navigation mode, waypoint positions, the stored route or any
\* persisted document.
C12_FailsFastWithoutAnchor ==
    [][(~referenceAnchor.present /\ lastOp' \in StartOps \cup LoadOps)
       => UNCHANGED <<navigationActive, cubes, cubePositions, fullNavigationPath,
                      storeVars>>]_vars

\* What holds of it: Start Navigation without an anchor changes nothing.
StartRefusedWithoutAnchor ==
    [][(~referenceAnchor.present /\ lastOp' \in StartOps)
       => (lastOp' = "navRefused" /\ UNCHANGED <<navVars, storeVars>>)]_vars

\* The steps that run the nearest-waypoint lookup and the shortest-path
\* query, and the render tick on which the windower ran.
PlanningOps == {"navOn", "navOnAgain", "navReverted", "navHung"}
UsesPositions == lastOp \in PlanningOps \cup {"window"}

\* Every position in use is the stored one reconciled with the saved anchor of
\* the positions document and the given live anchor.
ReconciledWith(liveAnchor) ==
    /\ Len(cubes) = Len(positionsDoc.cubes)
    /\ \A i \in DOMAIN cubes :
          cubes[i].position =
              Reconcile(positionsDoc.cubes[i].worldPosition,
                        positionsDoc.referenceAnchor, liveAnchor)
    /\ \A i \in DOMAIN cubePositions :
          \E j \in DOMAIN positionsDoc.cubes :
              /\ positionsDoc.cubes[j].id = cubePositions[i].id
              /\ cubePositions[i].pos =
                     Reconcile(positionsDoc.cubes[j].worldPosition,
                               positionsDoc.referenceAnchor, liveAnchor)

\* C13: whenever the nearest-waypoint lookup, the shortest-path query or a
\* windower tick has run, every waypoint position in use is reconciled with
\* the saved anchor and the current calibration of the session, also after a
\* recalibration.
C13_ReconciledWithCurrentAnchor ==
    (UsesPositions /\ cubes # <<>>) => ReconciledWith(referenceAnchor)

\* What holds of it: the positions in use are all reconciled with one and the
\* same pair of anchors, the live one being some calibration of the user.
ReconciledWithOnePair ==
    (UsesPositions /\ cubes # <<>>)
        => \E spot \in NavSpots : ReconciledWith(Anchor(spot, CameraYaw(spot)))


----------------------------------------------------------------------------
\* The route and the destination.

RouteEnd == fullNavigationPath[Len(fullNavigationPath)]

\* C26: whenever navigation is active with a non-empty stored route, the
\* last id of the route is the waypoint resolved for the selected room, also
\* when navigation was started while a destination change was loading.
C26_RouteEndsAtDestination ==
    (navigationActive /\ fullNavigationPath # <<>>)
        => RouteEnd = destinationNodeId

\* What holds of the code: the route ends at the destination that was
\* resolved when navigation was started.
RouteEndsAtDestinationOfStart ==
    (lastOp \in {"navOn", "navOnAgain"} /\ fullNavigationPath # <<>>)
        => RouteEnd = destinationNodeId

\* C30: in every reachable state of the navigation client, navigationActive
\* implies that an AR session is live and that a reference anchor is set.
C30_ActiveNeedsSessionAndAnchor ==
    navigationActive => (xrSession /\ referenceAnchor.present)

\* The session has ended while a route was stored: navigation had been
\* started, and is no longer active.
C30_Witness ==
    /\ lastOp = "sessionEnded"
    /\ fullNavigationPath # <<>>
    /\ referenceAnchor.present
    /\ ~navigationActive

----------------------------------------------------------------------------
\* What a failed fetch leaves in use.

\* The empty defaults: no destination, no waypoints, no edges.
NoDestination == destinationNodeId = NULL
NoWaypoints == cubes = <<>> /\ cubePositions = <<>>
NoEdges == adjacencyList = EmptyMap

\* C21: after the fetch of the rooms, of the positions or of the graph has
\* failed during a destination load, the client holds the empty default for
\* that document: no destination, no waypoints, no edges from an earlier
\* fetch.
C21_FailedFetchFallsBackToEmpty ==
    /\ lastOp = "loadRoomsFailed" => NoDestination
    /\ lastOp = "loadPositionsFailed" => NoWaypoints
    /\ lastOp = "loadGraphFailed" => NoEdges

\* What holds of the code: a route is planned to the destination of an
\* earlier room although the fetch for the room now selected has failed.
PlannedToEarlierRoom ==
    /\ lastOp \in {"navOn", "navOnAgain"}
    /\ destinationNodeId # NULL
    /\ destinationNodeId # FirstNodeFor(roomsDoc, selectedDestination)

----------------------------------------------------------------------------
\* Specification SpecLoad: a destination is selected and its waypoints are
\* loaded, for every positions document, calibration and room mapping within
\* the bounds.

MaxCoord == 1
MaxRooms == 3
Points == (0 .. MaxCoord) \X (0 .. MaxCoord)
Yaws == 0 .. 3
RoomLabels == {"lab", "annex"}

\* The calibrations onCalibrateClick can leave (navigation.js:313-325), and
\* none before the first one.
LiveAnchors == {NoAnchor} \cup {Anchor(p, yaw) : p \in Points, yaw \in Yaws}

\* The referenceAnchor of a positions document: none, one without an
\* orientation (older documents), one with both fields (main.js:458-470).
SavedAnchors ==
    {NoAnchor} \cup {Anchor(p, o) : p \in Points, o \in Yaws \cup {NoOrientation}}

\* A positions document with a single waypoint.
OneCubeDocs ==
    {[referenceAnchor |-> saved,
      cubes |-> <<[id |-> NodeId(0), worldPosition |-> p, rotation |-> 0]>>] :
        saved \in SavedAnchors, p \in Points}

\* The room mappings: node ids as keys in any insertion order, several ids
\* may carry the same label.
RoomMappings ==
    {m \in UNION {[1 .. n -> [id : NodeIds, room : RoomLabels]] : n \in 0 .. MaxRooms} :
        \A i, j \in DOMAIN m : m[i].id = m[j].id => i = j}

\* The client with the room selector on screen: after a calibration at the
\* anchor's pose, or before any calibration.
SelectorOpen(live) ==
    /\ referenceAnchor = live
    /\ xrSession = live.present
    /\ cameraPosition = live.position
    /\ navigationActive = FALSE
    /\ cubes = <<>> /\ fullNavigationPath = <<>>
    /\ pathTubes = <<>> /\ pathArrows = <<>>
    /\ waypointsToShow = <<>> /\ showDestination = FALSE
    /\ selectedDestination = NULL
    /\ destinationNodeId = NULL
    /\ nearestNodeId = NULL
    /\ loading = "idle"
    /\ calibrateVisible = FALSE
    /\ roomSelectorVisible = TRUE
    /\ startNavVisible = FALSE
    /\ hung = FALSE
    /\ justStopped = FALSE

InitLoad ==
    /\ \/ /\ positionsDoc \in OneCubeDocs
          /\ roomsDoc = <<[id |-> NodeId(0), room |-> "lab"]>>
          /\ \E live \in LiveAnchors : SelectorOpen(live)
       \/ /\ positionsDoc = SurveyedPositions
          /\ roomsDoc \in RoomMappings
          /\ SelectorOpen(Anchor(Origin, 0))
    /\ graphDoc = EmptyMap
    /\ cubePositions = <<>> /\ adjacencyList = EmptyMap
    /\ PathObsIdle /\ MainIdle /\ RemoveObsIdle
    /\ lastOp = "init"

\* Another client takes a waypoint's room out of the rooms document
\* (removeCubeFromServer, main.js:380-395) while the rooms are being fetched.
RoomRemoved ==
    /\ loading = "fetchRooms"
    /\ \E i \in DOMAIN roomsDoc : roomsDoc' = RoomsWithout(roomsDoc, roomsDoc[i].id)
    /\ lastOp' = "roomRemoved"
    /\ UNCHANGED <<navVars, positionsDoc, graphDoc, mainVars, pathObs, removeObs>>

NextLoad ==
    \/ RoomRemoved
    \/ onRoomChange
    \/ loadDestinationCubeRooms
    \/ loadDestinationCubePositions
    \/ loadGraphData

SpecLoad == InitLoad /\ [][NextLoad]_vars

----------------------------------------------------------------------------
\* Claims about reconciliation and destination lookup (SpecLoad).

\* A rotation by k quarter turns about the vertical axis.
QuarterTurns(v, k) ==
    CASE k = 0 -> v
      [] k = 1 -> <<v[2], 0 - v[1]>>
      [] k = 2 -> <<0 - v[1], 0 - v[2]>>
      [] k = 3 -> <<0 - v[2], v[1]>>

\* live.orientation * inverse(saved.orientation), both yaws.
DeltaRotation(saved, live) == (live.orientation - saved.orientation + 4) % 4

\* The reconciled position the claim states for a stored position p.
StatedReconciled(p, saved, live) ==
    IF saved.present /\ live.present
    THEN IF saved.orientation # NoOrientation /\ live.orientation # NoOrientation
         THEN LET rel == <<p[1] - saved.position[1], p[2] - saved.position[2]>>
                  rot == QuarterTurns(rel, DeltaRotation(saved, live))
              IN <<rot[1] + live.position[1], rot[2] + live.position[2]>>
         ELSE <<p[1] + live.position[1] - saved.position[1],
                p[2] + live.position[2] - saved.position[2]>>
    ELSE p

\* The claim speaks of two anchors, or of none at all.
BothOrNeither == positionsDoc.referenceAnchor.present = referenceAnchor.present

\* C14: a loaded waypoint stands at the rotation delta applied to its stored
\* position relative to the saved anchor, plus the live anchor's position;
\* the delta is the identity unless both anchors carry an orientation, and
\* with no anchors at all the stored position is kept.
C14_Reconciliation ==
    (cubes # <<>> /\ BothOrNeither)
        => \A i \in DOMAIN cubes :
              /\ cubes[i].position =
                     StatedReconciled(positionsDoc.cubes[i].worldPosition,
                                      positionsDoc.referenceAnchor, referenceAnchor)
              /\ \E j \in DOMAIN cubePositions :
                    /\ cubePositions[j].id = positionsDoc.cubes[i].id
                    /\ cubePositions[j].pos = cubes[i].position

\* A waypoint was loaded whose reconciliation turns it by a quarter turn
\* about a saved anchor it does not stand on.
C14_Witness ==
    /\ lastOp = "loadPositions"
    /\ cubes # <<>>
    /\ positionsDoc.referenceAnchor.present /\ referenceAnchor.present
    /\ positionsDoc.referenceAnchor.orientation # NoOrientation
    /\ DeltaRotation(positionsDoc.referenceAnchor, referenceAnchor) = 1
    /\ positionsDoc.cubes[1].worldPosition # positionsDoc.referenceAnchor.position
    /\ referenceAnchor.position # positionsDoc.referenceAnchor.position

\* The first id, in the order of the mapping, that carries the label.
StatedFirst(roomMapping, label) ==
    IF \E i \in DOMAIN roomMapping : roomMapping[i].room = label
    THEN LET first == CHOOSE i \in DOMAIN roomMapping :
                         /\ roomMapping[i].room = label
                         /\ \A j \in 1 .. i - 1 : roomMapping[j].room # label
         IN roomMapping[first].id
    ELSE NULL

\* C19: once the room mapping is fetched for a selected label, the resolved
\* destination id is the first id in the mapping's order that carries the
\* label, and null when no id carries it.
C19_FirstMatchingId ==
    lastOp = "loadRooms"
        => destinationNodeId = StatedFirst(roomsDoc, selectedDestination)

\* Two ids carry the selected label, the first of them in the mapping's order
\* is not the one with the smaller number, and it was resolved.
C19_Witness ==
    /\ lastOp = "loadRooms"
    /\ \E i, j \in DOMAIN roomsDoc :
          /\ i < j
          /\ roomsDoc[i].room = selectedDestination
          /\ roomsDoc[j].room = selectedDestination
          /\ ParseCubeId(roomsDoc[i].id) > ParseCubeId(roomsDoc[j].id)
          /\ \A k \in 1 .. i - 1 : roomsDoc[k].room # selectedDestination
          /\ destinationNodeId = roomsDoc[i].id

\* The label's last waypoint left the mapping during the fetch: no id.
NoIdForLabel ==
    /\ lastOp = "loadRooms"
    /\ \A i \in DOMAIN roomsDoc : roomsDoc[i].room # selectedDestination
    /\ destinationNodeId = NULL

----------------------------------------------------------------------------
\* Claims about the windower's output across ticks (SpecWindow).

\* What the windower emits for the route, the waypoint positions and the live
\* position of this state when nothing was emitted before.
FromScratch ==
    updateSlidingWindowPath(TRUE, TRUE, fullNavigationPath, cubes, cameraPosition,
                            <<>>, <<>>)

\* C18: the windower accumulates nothing across ticks: after every tick the
\* emitted segments and direction markers are those the route, the waypoint
\* positions and the live position give on their own, and there are always as
\* many segments as markers.
C18_NoAccumulation ==
    /\ Len(pathTubes) = Len(pathArrows)
    /\ lastOp = "window"
         => /\ pathTubes = FromScratch.pathTubes
            /\ pathArrows = FromScratch.pathArrows

\* A tick has run after the user moved on from the start of the route, where
\* the first run had emitted its segments, and it has emitted some again.
C18_Witness ==
    /\ lastOp = "window"
    /\ cameraPosition # Origin
    /\ Len(pathTubes) >= 2
    /\ pathTubes # updateSlidingWindowPath(TRUE, TRUE, fullNavigationPath, cubes,
                                            Origin, <<>>, <<>>).pathTubes


\* C28: on every tick with navigation active and a stored route of at least
\* two loaded waypoints, the windower emits at least one segment, wherever
\* the user stands short of the destination (here: further from it than the
\* reveal distance).
C28_AlwaysGuided ==
    (lastOp = "window" /\ ~DestinationNear) => pathTubes # <<>>

\* What holds of the code: a tick emits a segment when the user is nearest
\* to a waypoint that has at least two waypoints of the route after it.
GuidedWithTwoAhead ==
    (lastOp = "window" /\ ClosestIndex + 2 < RouteLen) => pathTubes # <<>>

----------------------------------------------------------------------------
\* The mapping client, src/src/main.js: session, waypoints, calibration,
\* storing and loading the positions document.

MaxStored == 4
MaxSpin == 1
MaxId == 4
MaxSaves == 1

\* Where a cube is placed: 1 m in front of the camera (main.js:262-268), and
\* the user has walked 2 m on for every cube already there.
PlacePoint(cbs) == Survey(Len(cbs))

IdsOf(cbs) == [i \in DOMAIN cbs |-> cbs[i].cubeId]

\* A getNextAvailableId without the gap search of lines 299-304.
getNextAvailableIdNoGap(cbs) == Len(cbs)

\* getNextAvailableId, main.js:291-308: sort the ids, return the first index
\* that does not hold its own number, else the length.
getNextAvailableId(cbs) ==
    LET existingIds == SortSeq(IdsOf(cbs), LAMBDA a, b : a < b)
        gaps == {i \in DOMAIN existingIds : existingIds[i] # i - 1}
    IN IF gaps = {} THEN Len(existingIds) ELSE Min(gaps) - 1

\* onButtonClick, main.js:122-155, and onSessionEnded, 203-247.
onButtonClick ==
    /\ mainXrSession' = ~mainXrSession
    /\ lastOp' = IF mainXrSession THEN "mainSessionEnded" ELSE "mainSessionStarted"
    /\ UNCHANGED <<navVars, storeVars, mainCubes, removals, mapVars, pathObs, removeObs>>

\* onAddCubeClick, main.js:249-288.
onAddCubeClick ==
    /\ mainXrSession
    /\ Len(mainCubes) < MaxStored
    /\ mainCubes' = Append(mainCubes,
                           MainCube(getNextAvailableId(mainCubes),
                                    PlacePoint(mainCubes), 0))
    /\ lastOp' = "addCube"
    /\ UNCHANGED <<navVars, storeVars, mainXrSession, removals, mapVars, pathObs,
                   removeObs>>

\* onCalibrateClick of the mapping client, main.js:399-432: the anchor is the
\* fixed origin with the identity orientation; loadCubePositions is scheduled.
mainOnCalibrateClick ==
    /\ mainXrSession
    /\ mainLoads = 0
    /\ mainReferenceAnchor' = Anchor(Origin, 0)
    /\ mainLoads' = 1
    /\ lastOp' = "mainCalibrate"
    /\ UNCHANGED <<navVars, storeVars, mainXrSession, mainCubes, removals,
                   mainSaving, mainStored, mainSaves, pathObs, removeObs>>

\* loadCubePositions, main.js:521-570: the array is cleared and one cube is
\* made per stored waypoint.
RebuiltCubes(cbs, data) ==
    [i \in DOMAIN data.cubes |->
        MainCube(ParseCubeId(data.cubes[i].id), data.cubes[i].worldPosition,
                 data.cubes[i].rotation)]

\* loadCubePositions, main.js:499-576, when the answer to its GET arrives.
loadCubePositions ==
    /\ mainLoads > 0
    /\ mainLoads' = mainLoads - 1
    /\ \E outcome \in Outcomes :
          IF outcome = "ok"
          THEN /\ mainCubes' = IF Len(positionsDoc.cubes) = 0 \/ ~mainReferenceAnchor.present
                               THEN mainCubes
                               ELSE RebuiltCubes(mainCubes, positionsDoc)
               /\ lastOp' = "loadCubes"
          ELSE /\ UNCHANGED mainCubes
               /\ lastOp' = "loadCubesFailed"
    /\ UNCHANGED <<navVars, storeVars, mainXrSession, removals, mainReferenceAnchor,
                   mainSaving, mainStored, mainSaves, pathObs, removeObs>>

\* saveCubePositions, main.js:447-475: the document that is posted (its
\* timestamp and cubeCount, and offsetFromQR, a copy of worldPosition, are
\* left out).
dataToStore(cbs, anchor) ==
    [referenceAnchor |-> anchor,
     cubes |-> [i \in DOMAIN cbs |->
                  [id |-> NodeId(cbs[i].cubeId),
                   worldPosition |-> cbs[i].position,
                   rotation |-> cbs[i].rotation]]]

\* onStorePointsClick and saveCubePositions, main.js:434-485, up to the POST.
onStorePointsClick ==
    /\ mainXrSession
    /\ mainSaving = <<>>
    /\ mainSaves < MaxSaves
    /\ mainSaves' = mainSaves + 1
    /\ IF ~mainReferenceAnchor.present
       THEN /\ UNCHANGED mainSaving
            /\ lastOp' = "storeRefused"
       ELSE /\ mainSaving' = <<[body |-> dataToStore(mainCubes, mainReferenceAnchor),
                               cubes |-> mainCubes]>>
            /\ lastOp' = "storeClick"
    /\ UNCHANGED <<navVars, storeVars, mainXrSession, mainCubes, removals,
                   mainReferenceAnchor, mainLoads, mainStored, pathObs, removeObs>>

\* POST /api/positions, server.js:52-62, and the rest of saveCubePositions,
\* main.js:487-496.
savePosted ==
    /\ mainSaving # <<>>
    /\ mainSaving' = <<>>
    /\ \E outcome \in Outcomes :
          IF outcome = "ok"
          THEN /\ positionsDoc' = mainSaving[1].body
               /\ mainStored' = mainSaving[1].cubes
               /\ lastOp' = "stored"
          ELSE /\ UNCHANGED <<positionsDoc, mainStored>>
               /\ lastOp' = "storeFailed"
    /\ UNCHANGED <<navVars, graphDoc, roomsDoc, mainXrSession, mainCubes, removals,
                   mainReferenceAnchor, mainLoads, mainSaves, pathObs, removeObs>>

\* render of the mapping client, main.js:584-588: every cube turns a little
\* further on each frame.
mainRender ==
    /\ mainCubes # <<>>
    /\ \A i \in DOMAIN mainCubes : mainCubes[i].rotation < MaxSpin
    /\ mainCubes' = [i \in DOMAIN mainCubes |->
                        [mainCubes[i] EXCEPT !.rotation = @ + 1]]
    /\ lastOp' = "mainRender"
    /\ UNCHANGED <<navVars, storeVars, mainXrSession, removals, mapVars, pathObs,
                   removeObs>>

\* Specification SpecMap: waypoints are added and removed in a session of the
\* mapping client that starts with no waypoint in memory or in the positions
\* document; the graph and rooms documents are those an earlier survey left.
InitMap ==
    /\ positionsDoc = NoPositions
    /\ graphDoc = LinkGraph(Corridor, "up")
    /\ roomsDoc = SurveyedRooms
    /\ mainXrSession = TRUE /\ mainCubes = <<>> /\ removals = <<>> /\ MapIdle
    /\ initialGraph = graphDoc
    /\ graphReplaced = {}
    /\ roomsReplaced = {}
    /\ overlapped = FALSE
    /\ faults = 0
    /\ NavIdle /\ PathObsIdle
    /\ lastOp = "init"

NextMap ==
    \/ onAddCubeClick
    \/ onRemoveCubeClick
    \/ RemoveFetchGraph
    \/ RemovePostGraph
    \/ RemoveFetchRooms
    \/ RemovePostRooms

SpecMap == InitMap /\ [][NextMap]_vars

\* Specification SpecStore: waypoints are placed, stored and loaded back in
\* the mapping client, from page load on against an empty store.
InitStore ==
    /\ StoreEmpty
    /\ MainIdle
    /\ NavIdle /\ PathObsIdle /\ RemoveObsIdle
    /\ lastOp = "init"

NextStore ==
    \/ onButtonClick
    \/ onAddCubeClick
    \/ mainOnCalibrateClick
    \/ loadCubePositions
    \/ onStorePointsClick
    \/ savePosted
    \/ mainRender

SpecStore == InitStore /\ [][NextStore]_vars

\* Specification SpecIds: a waypoint is added to a store that was loaded from
\* a positions document with any set of ids.
IdSets == {ids \in SUBSET (0 .. MaxId) : Cardinality(ids) < MaxStored}

RECURSIVE Ascending(_)
Ascending(ids) ==
    IF ids = {} THEN <<>> ELSE <<Min(ids)>> \o Ascending(ids \ {Min(ids)})
Reverse(s) == [i \in DOMAIN s |-> s[Len(s) + 1 - i]]

InitIds ==
    /\ \E ids \in IdSets, order \in {"up", "down"} :
          LET seq == IF order = "up" THEN Ascending(ids) ELSE Reverse(Ascending(ids))
          IN mainCubes = [i \in DOMAIN seq |-> MainCube(seq[i], Origin, 0)]
    /\ mainXrSession = TRUE
    /\ mainReferenceAnchor = Anchor(Origin, 0)
    /\ positionsDoc = dataToStore(mainCubes, mainReferenceAnchor)
    /\ mainStored = mainCubes
    /\ mainSaving = <<>> /\ mainLoads = 0 /\ mainSaves = 0 /\ removals = <<>>
    /\ graphDoc = EmptyMap /\ roomsDoc = <<>>
    /\ NavIdle /\ PathObsIdle /\ RemoveObsIdle
    /\ lastOp = "init"

NextIds == onAddCubeClick

SpecIds == InitIds /\ [][NextIds]_vars

----------------------------------------------------------------------------
\* Claims about waypoint ids (SpecIds, SpecMap).

AddedId == mainCubes[Len(mainCubes)].cubeId
EarlierIds == {mainCubes[i].cubeId : i \in 1 .. Len(mainCubes) - 1}
StoredIds == {mainCubes[i].cubeId : i \in DOMAIN mainCubes}

\* C15: for every set of distinct non-negative ids held by the waypoints,
\* getNextAvailableId returns the smallest non-negative integer that is not in
\* the set: the id given to an added waypoint is that integer.
C15_SmallestFreeId ==
    (lastOp = "addCube" /\ Cardinality(EarlierIds) = Len(mainCubes) - 1)
        => /\ AddedId \in Nat
           /\ AddedId \notin EarlierIds
           /\ \A k \in 0 .. AddedId - 1 : k \in EarlierIds

\* A waypoint was added to the ids {0, 1, 3} and got the id of the gap.
C15_Witness ==
    /\ lastOp = "addCube"
    /\ EarlierIds = {0, 1, 3}
    /\ AddedId = 2

\* C16: starting from no waypoint, after any sequence of additions and
\* removals the ids of the waypoints are pairwise distinct and are exactly
\* 0 .. n-1 for n waypoints.
C16_DenseIds ==
    /\ Cardinality(StoredIds) = Len(mainCubes)
    /\ StoredIds = 0 .. Len(mainCubes) - 1

\* A waypoint was added after two removals: an id was given a second time.
C16_Witness ==
    /\ lastOp = "addCube"
    /\ Len(removals) = 2
    /\ Len(mainCubes) >= 2
    /\ \E i \in DOMAIN removals : removals[i].nodeId = NodeId(AddedId)

----------------------------------------------------------------------------
\* Claims about storing and loading the positions document (SpecStore).

\* A save has replaced the positions document.
Saved == positionsDoc # NoPositions

\* The waypoints of a fetched document are those of the cubes, with their
\* ids, positions and rotations.
SameWaypoints(docCubes, cbs) ==
    /\ Len(docCubes) = Len(cbs)
    /\ \A i \in DOMAIN cbs :
          /\ docCubes[i].id = NodeId(cbs[i].cubeId)
          /\ docCubes[i].worldPosition = cbs[i].position
          /\ docCubes[i].rotation = cbs[i].rotation

\* The cubes in memory have the ids and positions of the given ones.
SameIdsAndPositions(cbs, others) ==
    /\ Len(cbs) = Len(others)
    /\ \A i \in DOMAIN cbs :
          /\ cbs[i].cubeId = others[i].cubeId
          /\ cbs[i].position = others[i].position

\* C20: once the mapping client has stored its waypoints, the document that a
\* fetch returns holds the stored waypoints with their ids, positions and
\* rotations, and loading it rebuilds the cubes in memory with those ids and
\* positions.
C20_RoundTrip ==
    Saved => /\ SameWaypoints(positionsDoc.cubes, mainStored)
             /\ lastOp = "loadCubes" => SameIdsAndPositions(mainCubes, mainStored)

\* What holds of it: the document always holds what was stored, and loading
\* rebuilds the cubes when at least one waypoint was stored.
RoundTripOfStoredWaypoints ==
    Saved => /\ SameWaypoints(positionsDoc.cubes, mainStored)
             /\ (lastOp = "loadCubes" /\ mainStored # <<>>)
                   => SameIdsAndPositions(mainCubes, mainStored)

\* Waypoints were stored, more were added and turned on, and a load has put
\* the stored ones back.
StoredWaypointsLoaded ==
    /\ lastOp = "loadCubes"
    /\ Len(mainStored) >= 2
    /\ \E i \in DOMAIN mainStored : mainStored[i].rotation > 0
    /\ SameIdsAndPositions(mainCubes, mainStored)

----------------------------------------------------------------------------
\* Specification SpecForms: the store holds a graph written in one of the
\* edge forms; the navigation client has loaded it and plans on it, and the
\* mapping client, which has placed its first cube since the page was
\* loaded, removes it.

\* How the edges of a graph are written: as bare ids, as {node, distance: 1}
\* objects, as {node} objects without a distance, or mixed as in LinkEdge.
Writings == {"bare", "object", "omitted", "mixed"}
WrittenEdge(a, b, writing) ==
    CASE writing = "bare" -> BareEdge(NodeId(b))
      [] writing = "object" -> ObjectEdge(NodeId(b), 1)
      [] writing = "omitted" -> ObjectEdge(NodeId(b), 0)
      [] OTHER -> LinkEdge(a, b)
WrittenGraph(ls, kind, writing) ==
    LET arcs == {<<l[1], l[2]>> : l \in {m \in ls : kind \in {"both", "up"}}}
                \cup {<<l[2], l[1]>> : l \in {m \in ls : kind \in {"both", "down"}}}
    IN [n \in {NodeId(a[1]) : a \in arcs} |->
           {WrittenEdge(a[1], a[2], writing) : a \in {b \in arcs : NodeId(b[1]) = n}}]
WrittenGraphs ==
    {WrittenGraph(ls, kind, writing) :
        ls \in SUBSET CandidateLinks, kind \in LinkKinds, writing \in Writings}

InitForms ==
    /\ positionsDoc = NoPositions
    /\ graphDoc \in WrittenGraphs
    /\ roomsDoc = [i \in 1 .. NumCubes |->
                     [id |-> NodeId(i - 1), room |-> RoomLabel(i - 1)]]
    /\ mainXrSession = TRUE
    /\ mainCubes = <<MainCube(0, Origin, 0)>>
    /\ removals = <<>>
    /\ MapIdle
    /\ initialGraph = graphDoc
    /\ graphReplaced = {}
    /\ roomsReplaced = {}
    /\ overlapped = FALSE
    /\ faults = 0
    /\ cubePositions = IndexOf(NumCubes)
    /\ adjacencyList = graphDoc
    /\ WindowIdle /\ PathObsIdle
    /\ lastOp = "init"

NextForms ==
    \/ CallDijkstra
    \/ onRemoveCubeClick
    \/ RemoveFetchGraph
    \/ RemovePostGraph
    \/ RemoveFetchRooms
    \/ RemovePostRooms

SpecForms == InitForms /\ [][NextForms]_vars

----------------------------------------------------------------------------
\* Claims about the edge forms (SpecForms).

\* The adjacency list with every edge written as {node, distance} and the
\* distance 1 where none is written.
AsObjects(adj) ==
    [n \in DOMAIN adj |->
        {ObjectEdge(e.node, IF e.distance = 0 THEN 1 ELSE e.distance) : e \in adj[n]}]

\* C23: dijkstra returns on an adjacency list what it returns on the list
\* with its bare ids written as {node, distance: 1} and its omitted distances
\* written as 1; and the graph a removal computes from the fetched list is,
\* written that way, the graph it computes from the list written that way.
C23_EdgeFormsEquivalent ==
    /\ lastOp = "dijkstra"
          => result = dijkstra(cubePositions, AsObjects(adjacencyList),
                               query[1], query[2])
    /\ \A i \in DOMAIN removals :
          (removals[i].pc = "postGraph" /\ removals[i].allOk /\ ~overlapped)
          => AsObjects(removals[i].adjacencyList) =
                RemoveFromGraph(AsObjects(graphDoc), removals[i].nodeId)

\* A route of two bare edges was found, and a removal has then filtered a
\* bare edge out of the fetched graph and kept another.
C23_Witness ==
    /\ result.kind = "found" /\ result.distance = 2
    /\ \A n \in DOMAIN adjacencyList : \A e \in adjacencyList[n] : e.form = "bare"
    /\ \E i \in DOMAIN removals :
          /\ removals[i].pc = "postGraph" /\ removals[i].allOk
          /\ \E n \in DOMAIN graphDoc :
                /\ BareEdge(removals[i].nodeId) \in graphDoc[n]
                /\ n \in DOMAIN removals[i].adjacencyList

----------------------------------------------------------------------------
\* Specification SpecPurge: the survey has been stored and the mapping
\* client still holds its cubes; waypoints are removed and the positions are
\* stored again.
InitPurge ==
    /\ positionsDoc = SurveyedPositions
    /\ graphDoc = LinkGraph(Corridor, "up")
    /\ roomsDoc = SurveyedRooms
    /\ mainXrSession = TRUE
    /\ mainCubes = [i \in 1 .. NumCubes |-> MainCube(i - 1, Survey(i - 1), 0)]
    /\ removals = <<>>
    /\ mainReferenceAnchor = Anchor(Origin, 0)
    /\ mainSaving = <<>>
    /\ mainLoads = 0
    /\ mainStored = mainCubes
    /\ mainSaves = 0
    /\ initialGraph = graphDoc
    /\ graphReplaced = {}
    /\ roomsReplaced = {}
    /\ overlapped = FALSE
    /\ faults = 0
    /\ NavIdle /\ PathObsIdle
    /\ lastOp = "init"

NextPurge ==
    \/ onRemoveCubeClick
    \/ RemoveFetchGraph
    \/ RemovePostGraph
    \/ RemoveFetchRooms
    \/ RemovePostRooms
    \/ onStorePointsClick
    \/ savePosted

SpecPurge == InitPurge /\ [][NextPurge]_vars

----------------------------------------------------------------------------
\* Claims about what a removal leaves in the store (SpecPurge).

\* The ids of the waypoints of the positions document.
PositionIds(posData) == {posData.cubes[i].id : i \in DOMAIN posData.cubes}

\* C27: after a removal of id whose store operations all succeeded, with no
\* other removal running beside it, none of the three documents references
\* id: it is no waypoint of the positions, no key and no edge endpoint of
\* the graph, and no key of the room mapping.
C27_RemovedEverywhere ==
    \A i \in DOMAIN removals :
        (Done(i) /\ removals[i].allOk /\ ~overlapped)
        => /\ removals[i].nodeId \notin PositionIds(positionsDoc)
           /\ ~HasEntry(graphDoc, removals[i].nodeId)
           /\ ~References(graphDoc, removals[i].nodeId)
           /\ ~RoomMapped(roomsDoc, removals[i].nodeId)

\* What holds of the code: the graph and the room mapping no longer
\* reference id.
RemovedFromGraphAndRooms ==
    \A i \in DOMAIN removals :
        (Done(i) /\ removals[i].allOk /\ ~overlapped)
        => /\ ~HasEntry(graphDoc, removals[i].nodeId)
           /\ ~References(graphDoc, removals[i].nodeId)
           /\ ~RoomMapped(roomsDoc, removals[i].nodeId)

\* Store Points, clicked after the removal, has replaced the positions
\* document by one without the removed waypoint.
PurgedByLaterStore ==
    /\ lastOp = "stored"
    /\ \E i \in DOMAIN removals :
          /\ Done(i) /\ removals[i].allOk
          /\ removals[i].nodeId \in PositionIds(SurveyedPositions)
          /\ removals[i].nodeId \notin PositionIds(positionsDoc)

----------------------------------------------------------------------------
\* Specification SpecIndex: destinations are loaded in a calibrated
\* navigation client while the mapping client, which has removed the last
\* waypoint of the stored survey, stores its positions again.
InitIndex ==
    /\ positionsDoc = SurveyedPositions
    /\ graphDoc = RemoveFromGraph(LinkGraph(Corridor, "up"), NodeId(NumCubes - 1))
    /\ roomsDoc = [i \in 1 .. (NumCubes - 1) |->
                     [id |-> NodeId(i - 1), room |-> RoomLabel(i - 1)]]
    /\ mainXrSession = TRUE
    /\ mainCubes = [i \in 1 .. (NumCubes - 1) |-> MainCube(i - 1, Survey(i - 1), 0)]
    /\ removals = <<>>
    /\ mainReferenceAnchor = Anchor(Origin, 0)
    /\ mainSaving = <<>>
    /\ mainLoads = 0
    /\ mainStored = [i \in 1 .. NumCubes |-> MainCube(i - 1, Survey(i - 1), 0)]
    /\ mainSaves = 0
    /\ xrSession = TRUE /\ navigationActive = FALSE
    /\ cubes = <<>> /\ fullNavigationPath = <<>>
    /\ pathTubes = <<>> /\ pathArrows = <<>>
    /\ cameraPosition \in NavSpots
    /\ waypointsToShow = <<>> /\ showDestination = FALSE
    /\ cubePositions = <<>> /\ adjacencyList = EmptyMap
    /\ referenceAnchor = Anchor(cameraPosition, CameraYaw(cameraPosition))
    /\ selectedDestination = NULL
    /\ destinationNodeId = NULL
    /\ nearestNodeId = NULL
    /\ loading = "idle"
    /\ calibrateVisible = FALSE
    /\ roomSelectorVisible = TRUE
    /\ startNavVisible = FALSE
    /\ hung = FALSE
    /\ justStopped = FALSE
    /\ PathObsIdle /\ RemoveObsIdle
    /\ lastOp = "init"

NextIndex ==
    \/ onRoomChange
    \/ loadDestinationCubeRooms
    \/ loadDestinationCubePositions
    \/ loadGraphData
    \/ onStorePointsClick
    \/ savePosted

SpecIndex == InitIndex /\ [][NextIndex]_vars

----------------------------------------------------------------------------
\* Claims about the position index (SpecIndex).

IndexIds == Range(Keys(cubePositions))

\* C29: when a destination load has fetched the positions document, the
\* position index holds exactly the ids of that document: no id of an
\* earlier fetch that the document no longer lists remains.
C29_IndexIsLatestDocument ==
    lastOp = "loadPositions" => IndexIds = PositionIds(positionsDoc)

\* What holds of the code: the index holds at least the ids of the fetched
\* document, each at its reconciled position.
IndexCoversLatestDocument ==
    lastOp = "loadPositions"
        => \A i \in DOMAIN positionsDoc.cubes :
              \E j \in DOMAIN cubePositions :
                 /\ cubePositions[j].id = positionsDoc.cubes[i].id
                 /\ cubePositions[j].pos =
                        Reconcile(positionsDoc.cubes[i].worldPosition,
                                  positionsDoc.referenceAnchor, referenceAnchor)

====
